---- MODULE Spec2Model ----
(***************************************************************************)
(* Model of the MariaDB MCP server (src/src/mariadb_mcp/server.py): the    *)
(* configuration manager, the MariaDBConnection gateway with its lazily   *)
(* created aiomysql pool, execute_query, and the tool operations           *)
(* list_databases, list_tables, get_table_schema, execute_sql and          *)
(* reload_config, run as asyncio tasks that interleave at their awaits.    *)
(*                                                                         *)
(* Text is a sequence of pieces.  Statements typed by a caller are         *)
(* sequences of one-character pieces, so that strip(), upper() and         *)
(* startswith() are computed character by character.                       *)
(***************************************************************************)
EXTENDS Integers, Sequences, FiniteSets, TLC

\* ------------------------------------------------------------------------
\* Bounds of the model
\* ------------------------------------------------------------------------
NumTasks == 3        \* tasks that run list_databases and reload_config
MaxCalls == 3        \* tool calls started in a run of those tasks
MaxQuietCalls == 4   \* tool calls started in a run with a healthy server
NumCallers == 2      \* tasks that run any of the five tools
MaxToolCalls == 2    \* tool calls started in a run of those callers
MaxToolCancels == 1  \* calls of Task.cancel() in a run of those callers
NumClients == 2      \* tasks of which one reloads while another queries
MaxClientCalls == 2  \* tool calls started in a run of those clients
MaxClientCancels == 2 \* calls of Task.cancel() in a run of those clients
MaxEnvChanges == 1   \* changes of the environment or of the .env file
MaxRows == 102       \* rows of a result set handed to the formatter

\* ------------------------------------------------------------------------
\* Characters.  A printable ASCII character is the piece of that character,
\* tab, line feed, carriage return and form feed are "\t", "\n", "\r" and
\* "\f", the grave accent is "<U+0060>", and any other character is the
\* piece that names its code point, such as "<U+017F>".  The tables are those
\* of CPython 3.11 (Unicode 14.0.0).
\* ------------------------------------------------------------------------
\* str.isspace(): the characters that str.strip() removes
Whitespace ==
    {"\t", "\n", "<U+000B>", "\f", "<U+000C>", "\r", "<U+001C>", "<U+001D>",
     "<U+001E>", "<U+001F>", " ", "<U+0085>", "<U+00A0>", "<U+1680>",
     "<U+2000>", "<U+2001>", "<U+2002>", "<U+2003>", "<U+2004>", "<U+2005>",
     "<U+2006>", "<U+2007>", "<U+2008>", "<U+2009>", "<U+200A>", "<U+2028>",
     "<U+2029>", "<U+202F>", "<U+205F>", "<U+3000>"}

\* the characters that int() skips around a literal: those of str.isspace()
\* but for the four separators U+001C to U+001F
IntWhitespace ==
    Whitespace \ {"<U+001C>", "<U+001D>", "<U+001E>", "<U+001F>"}

\* str.upper() of one character, for every character it changes; some
\* become two or three characters
UpperPairs ==
    {<<"a", <<"A">>>>, <<"b", <<"B">>>>, <<"c", <<"C">>>>, <<"d", <<"D">>>>,
     <<"e", <<"E">>>>, <<"f", <<"F">>>>, <<"g", <<"G">>>>, <<"h", <<"H">>>>,
     <<"i", <<"I">>>>, <<"j", <<"J">>>>, <<"k", <<"K">>>>, <<"l", <<"L">>>>,
     <<"m", <<"M">>>>, <<"n", <<"N">>>>, <<"o", <<"O">>>>, <<"p", <<"P">>>>,
     <<"q", <<"Q">>>>, <<"r", <<"R">>>>, <<"s", <<"S">>>>, <<"t", <<"T">>>>,
     <<"u", <<"U">>>>, <<"v", <<"V">>>>, <<"w", <<"W">>>>, <<"x", <<"X">>>>,
     <<"y", <<"Y">>>>, <<"z", <<"Z">>>>, <<"<U+00B5>", <<"<U+039C>">>>>,
     <<"<U+00DF>", <<"S", "S">>>>, <<"<U+00E0>", <<"<U+00C0>">>>>,
     <<"<U+00E1>", <<"<U+00C1>">>>>, <<"<U+00E2>", <<"<U+00C2>">>>>,
     <<"<U+00E3>", <<"<U+00C3>">>>>, <<"<U+00E4>", <<"<U+00C4>">>>>,
     <<"<U+00E5>", <<"<U+00C5>">>>>, <<"<U+00E6>", <<"<U+00C6>">>>>,
     <<"<U+00E7>", <<"<U+00C7>">>>>, <<"<U+00E8>", <<"<U+00C8>">>>>,
     <<"<U+00E9>", <<"<U+00C9>">>>>, <<"<U+00EA>", <<"<U+00CA>">>>>,
     <<"<U+00EB>", <<"<U+00CB>">>>>, <<"<U+00EC>", <<"<U+00CC>">>>>,
     <<"<U+00ED>", <<"<U+00CD>">>>>, <<"<U+00EE>", <<"<U+00CE>">>>>,
     <<"<U+00EF>", <<"<U+00CF>">>>>, <<"<U+00F0>", <<"<U+00D0>">>>>,
     <<"<U+00F1>", <<"<U+00D1>">>>>, <<"<U+00F2>", <<"<U+00D2>">>>>,
     <<"<U+00F3>", <<"<U+00D3>">>>>, <<"<U+00F4>", <<"<U+00D4>">>>>,
     <<"<U+00F5>", <<"<U+00D5>">>>>, <<"<U+00F6>", <<"<U+00D6>">>>>,
     <<"<U+00F8>", <<"<U+00D8>">>>>, <<"<U+00F9>", <<"<U+00D9>">>>>,
     <<"<U+00FA>", <<"<U+00DA>">>>>, <<"<U+00FB>", <<"<U+00DB>">>>>,
     <<"<U+00FC>", <<"<U+00DC>">>>>, <<"<U+00FD>", <<"<U+00DD>">>>>,
     <<"<U+00FE>", <<"<U+00DE>">>>>, <<"<U+00FF>", <<"<U+0178>">>>>,
     <<"<U+0101>", <<"<U+0100>">>>>, <<"<U+0103>", <<"<U+0102>">>>>,
     <<"<U+0105>", <<"<U+0104>">>>>, <<"<U+0107>", <<"<U+0106>">>>>,
     <<"<U+0109>", <<"<U+0108>">>>>, <<"<U+010B>", <<"<U+010A>">>>>,
     <<"<U+010D>", <<"<U+010C>">>>>, <<"<U+010F>", <<"<U+010E>">>>>,
     <<"<U+0111>", <<"<U+0110>">>>>, <<"<U+0113>", <<"<U+0112>">>>>,
     <<"<U+0115>", <<"<U+0114>">>>>, <<"<U+0117>", <<"<U+0116>">>>>,
     <<"<U+0119>", <<"<U+0118>">>>>, <<"<U+011B>", <<"<U+011A>">>>>,
     <<"<U+011D>", <<"<U+011C>">>>>, <<"<U+011F>", <<"<U+011E>">>>>,
     <<"<U+0121>", <<"<U+0120>">>>>, <<"<U+0123>", <<"<U+0122>">>>>,
     <<"<U+0125>", <<"<U+0124>">>>>, <<"<U+0127>", <<"<U+0126>">>>>,
     <<"<U+0129>", <<"<U+0128>">>>>, <<"<U+012B>", <<"<U+012A>">>>>,
     <<"<U+012D>", <<"<U+012C>">>>>, <<"<U+012F>", <<"<U+012E>">>>>,
     <<"<U+0131>", <<"I">>>>, <<"<U+0133>", <<"<U+0132>">>>>,
     <<"<U+0135>", <<"<U+0134>">>>>, <<"<U+0137>", <<"<U+0136>">>>>,
     <<"<U+013A>", <<"<U+0139>">>>>, <<"<U+013C>", <<"<U+013B>">>>>,
     <<"<U+013E>", <<"<U+013D>">>>>, <<"<U+0140>", <<"<U+013F>">>>>,
     <<"<U+0142>", <<"<U+0141>">>>>, <<"<U+0144>", <<"<U+0143>">>>>,
     <<"<U+0146>", <<"<U+0145>">>>>, <<"<U+0148>", <<"<U+0147>">>>>,
     <<"<U+0149>", <<"<U+02BC>", "N">>>>, <<"<U+014B>", <<"<U+014A>">>>>,
     <<"<U+014D>", <<"<U+014C>">>>>, <<"<U+014F>", <<"<U+014E>">>>>,
     <<"<U+0151>", <<"<U+0150>">>>>, <<"<U+0153>", <<"<U+0152>">>>>,
     <<"<U+0155>", <<"<U+0154>">>>>, <<"<U+0157>", <<"<U+0156>">>>>,
     <<"<U+0159>", <<"<U+0158>">>>>, <<"<U+015B>", <<"<U+015A>">>>>,
     <<"<U+015D>", <<"<U+015C>">>>>, <<"<U+015F>", <<"<U+015E>">>>>,
     <<"<U+0161>", <<"<U+0160>">>>>, <<"<U+0163>", <<"<U+0162>">>>>,
     <<"<U+0165>", <<"<U+0164>">>>>, <<"<U+0167>", <<"<U+0166>">>>>,
     <<"<U+0169>", <<"<U+0168>">>>>, <<"<U+016B>", <<"<U+016A>">>>>,
     <<"<U+016D>", <<"<U+016C>">>>>, <<"<U+016F>", <<"<U+016E>">>>>,
     <<"<U+0171>", <<"<U+0170>">>>>, <<"<U+0173>", <<"<U+0172>">>>>,
     <<"<U+0175>", <<"<U+0174>">>>>, <<"<U+0177>", <<"<U+0176>">>>>,
     <<"<U+017A>", <<"<U+0179>">>>>, <<"<U+017C>", <<"<U+017B>">>>>,
     <<"<U+017E>", <<"<U+017D>">>>>, <<"<U+017F>", <<"S">>>>,
     <<"<U+0180>", <<"<U+0243>">>>>, <<"<U+0183>", <<"<U+0182>">>>>,
     <<"<U+0185>", <<"<U+0184>">>>>, <<"<U+0188>", <<"<U+0187>">>>>,
     <<"<U+018C>", <<"<U+018B>">>>>, <<"<U+0192>", <<"<U+0191>">>>>,
     <<"<U+0195>", <<"<U+01F6>">>>>, <<"<U+0199>", <<"<U+0198>">>>>,
     <<"<U+019A>", <<"<U+023D>">>>>, <<"<U+019E>", <<"<U+0220>">>>>,
     <<"<U+01A1>", <<"<U+01A0>">>>>, <<"<U+01A3>", <<"<U+01A2>">>>>,
     <<"<U+01A5>", <<"<U+01A4>">>>>, <<"<U+01A8>", <<"<U+01A7>">>>>,
     <<"<U+01AD>", <<"<U+01AC>">>>>, <<"<U+01B0>", <<"<U+01AF>">>>>,
     <<"<U+01B4>", <<"<U+01B3>">>>>, <<"<U+01B6>", <<"<U+01B5>">>>>,
     <<"<U+01B9>", <<"<U+01B8>">>>>, <<"<U+01BD>", <<"<U+01BC>">>>>,
     <<"<U+01BF>", <<"<U+01F7>">>>>, <<"<U+01C5>", <<"<U+01C4>">>>>,
     <<"<U+01C6>", <<"<U+01C4>">>>>, <<"<U+01C8>", <<"<U+01C7>">>>>,
     <<"<U+01C9>", <<"<U+01C7>">>>>, <<"<U+01CB>", <<"<U+01CA>">>>>,
     <<"<U+01CC>", <<"<U+01CA>">>>>, <<"<U+01CE>", <<"<U+01CD>">>>>,
     <<"<U+01D0>", <<"<U+01CF>">>>>, <<"<U+01D2>", <<"<U+01D1>">>>>,
     <<"<U+01D4>", <<"<U+01D3>">>>>, <<"<U+01D6>", <<"<U+01D5>">>>>,
     <<"<U+01D8>", <<"<U+01D7>">>>>, <<"<U+01DA>", <<"<U+01D9>">>>>,
     <<"<U+01DC>", <<"<U+01DB>">>>>, <<"<U+01DD>", <<"<U+018E>">>>>,
     <<"<U+01DF>", <<"<U+01DE>">>>>, <<"<U+01E1>", <<"<U+01E0>">>>>,
     <<"<U+01E3>", <<"<U+01E2>">>>>, <<"<U+01E5>", <<"<U+01E4>">>>>,
     <<"<U+01E7>", <<"<U+01E6>">>>>, <<"<U+01E9>", <<"<U+01E8>">>>>,
     <<"<U+01EB>", <<"<U+01EA>">>>>, <<"<U+01ED>", <<"<U+01EC>">>>>,
     <<"<U+01EF>", <<"<U+01EE>">>>>, <<"<U+01F0>", <<"J", "<U+030C>">>>>,
     <<"<U+01F2>", <<"<U+01F1>">>>>, <<"<U+01F3>", <<"<U+01F1>">>>>,
     <<"<U+01F5>", <<"<U+01F4>">>>>, <<"<U+01F9>", <<"<U+01F8>">>>>,
     <<"<U+01FB>", <<"<U+01FA>">>>>, <<"<U+01FD>", <<"<U+01FC>">>>>,
     <<"<U+01FF>", <<"<U+01FE>">>>>, <<"<U+0201>", <<"<U+0200>">>>>,
     <<"<U+0203>", <<"<U+0202>">>>>, <<"<U+0205>", <<"<U+0204>">>>>,
     <<"<U+0207>", <<"<U+0206>">>>>, <<"<U+0209>", <<"<U+0208>">>>>,
     <<"<U+020B>", <<"<U+020A>">>>>, <<"<U+020D>", <<"<U+020C>">>>>,
     <<"<U+020F>", <<"<U+020E>">>>>, <<"<U+0211>", <<"<U+0210>">>>>,
     <<"<U+0213>", <<"<U+0212>">>>>, <<"<U+0215>", <<"<U+0214>">>>>,
     <<"<U+0217>", <<"<U+0216>">>>>, <<"<U+0219>", <<"<U+0218>">>>>,
     <<"<U+021B>", <<"<U+021A>">>>>, <<"<U+021D>", <<"<U+021C>">>>>,
     <<"<U+021F>", <<"<U+021E>">>>>, <<"<U+0223>", <<"<U+0222>">>>>,
     <<"<U+0225>", <<"<U+0224>">>>>, <<"<U+0227>", <<"<U+0226>">>>>,
     <<"<U+0229>", <<"<U+0228>">>>>, <<"<U+022B>", <<"<U+022A>">>>>,
     <<"<U+022D>", <<"<U+022C>">>>>, <<"<U+022F>", <<"<U+022E>">>>>,
     <<"<U+0231>", <<"<U+0230>">>>>, <<"<U+0233>", <<"<U+0232>">>>>,
     <<"<U+023C>", <<"<U+023B>">>>>, <<"<U+023F>", <<"<U+2C7E>">>>>,
     <<"<U+0240>", <<"<U+2C7F>">>>>, <<"<U+0242>", <<"<U+0241>">>>>,
     <<"<U+0247>", <<"<U+0246>">>>>, <<"<U+0249>", <<"<U+0248>">>>>,
     <<"<U+024B>", <<"<U+024A>">>>>, <<"<U+024D>", <<"<U+024C>">>>>,
     <<"<U+024F>", <<"<U+024E>">>>>, <<"<U+0250>", <<"<U+2C6F>">>>>,
     <<"<U+0251>", <<"<U+2C6D>">>>>, <<"<U+0252>", <<"<U+2C70>">>>>,
     <<"<U+0253>", <<"<U+0181>">>>>, <<"<U+0254>", <<"<U+0186>">>>>,
     <<"<U+0256>", <<"<U+0189>">>>>, <<"<U+0257>", <<"<U+018A>">>>>,
     <<"<U+0259>", <<"<U+018F>">>>>, <<"<U+025B>", <<"<U+0190>">>>>,
     <<"<U+025C>", <<"<U+A7AB>">>>>, <<"<U+0260>", <<"<U+0193>">>>>,
     <<"<U+0261>", <<"<U+A7AC>">>>>, <<"<U+0263>", <<"<U+0194>">>>>,
     <<"<U+0265>", <<"<U+A78D>">>>>, <<"<U+0266>", <<"<U+A7AA>">>>>,
     <<"<U+0268>", <<"<U+0197>">>>>, <<"<U+0269>", <<"<U+0196>">>>>,
     <<"<U+026A>", <<"<U+A7AE>">>>>, <<"<U+026B>", <<"<U+2C62>">>>>,
     <<"<U+026C>", <<"<U+A7AD>">>>>, <<"<U+026F>", <<"<U+019C>">>>>,
     <<"<U+0271>", <<"<U+2C6E>">>>>, <<"<U+0272>", <<"<U+019D>">>>>,
     <<"<U+0275>", <<"<U+019F>">>>>, <<"<U+027D>", <<"<U+2C64>">>>>,
     <<"<U+0280>", <<"<U+01A6>">>>>, <<"<U+0282>", <<"<U+A7C5>">>>>,
     <<"<U+0283>", <<"<U+01A9>">>>>, <<"<U+0287>", <<"<U+A7B1>">>>>,
     <<"<U+0288>", <<"<U+01AE>">>>>, <<"<U+0289>", <<"<U+0244>">>>>,
     <<"<U+028A>", <<"<U+01B1>">>>>, <<"<U+028B>", <<"<U+01B2>">>>>,
     <<"<U+028C>", <<"<U+0245>">>>>, <<"<U+0292>", <<"<U+01B7>">>>>,
     <<"<U+029D>", <<"<U+A7B2>">>>>, <<"<U+029E>", <<"<U+A7B0>">>>>,
     <<"<U+0345>", <<"<U+0399>">>>>, <<"<U+0371>", <<"<U+0370>">>>>,
     <<"<U+0373>", <<"<U+0372>">>>>, <<"<U+0377>", <<"<U+0376>">>>>,
     <<"<U+037B>", <<"<U+03FD>">>>>, <<"<U+037C>", <<"<U+03FE>">>>>,
     <<"<U+037D>", <<"<U+03FF>">>>>,
     <<"<U+0390>", <<"<U+0399>", "<U+0308>", "<U+0301>">>>>,
     <<"<U+03AC>", <<"<U+0386>">>>>, <<"<U+03AD>", <<"<U+0388>">>>>,
     <<"<U+03AE>", <<"<U+0389>">>>>, <<"<U+03AF>", <<"<U+038A>">>>>,
     <<"<U+03B0>", <<"<U+03A5>", "<U+0308>", "<U+0301>">>>>,
     <<"<U+03B1>", <<"<U+0391>">>>>, <<"<U+03B2>", <<"<U+0392>">>>>,
     <<"<U+03B3>", <<"<U+0393>">>>>, <<"<U+03B4>", <<"<U+0394>">>>>,
     <<"<U+03B5>", <<"<U+0395>">>>>, <<"<U+03B6>", <<"<U+0396>">>>>,
     <<"<U+03B7>", <<"<U+0397>">>>>, <<"<U+03B8>", <<"<U+0398>">>>>,
     <<"<U+03B9>", <<"<U+0399>">>>>, <<"<U+03BA>", <<"<U+039A>">>>>,
     <<"<U+03BB>", <<"<U+039B>">>>>, <<"<U+03BC>", <<"<U+039C>">>>>,
     <<"<U+03BD>", <<"<U+039D>">>>>, <<"<U+03BE>", <<"<U+039E>">>>>,
     <<"<U+03BF>", <<"<U+039F>">>>>, <<"<U+03C0>", <<"<U+03A0>">>>>,
     <<"<U+03C1>", <<"<U+03A1>">>>>, <<"<U+03C2>", <<"<U+03A3>">>>>,
     <<"<U+03C3>", <<"<U+03A3>">>>>, <<"<U+03C4>", <<"<U+03A4>">>>>,
     <<"<U+03C5>", <<"<U+03A5>">>>>, <<"<U+03C6>", <<"<U+03A6>">>>>,
     <<"<U+03C7>", <<"<U+03A7>">>>>, <<"<U+03C8>", <<"<U+03A8>">>>>,
     <<"<U+03C9>", <<"<U+03A9>">>>>, <<"<U+03CA>", <<"<U+03AA>">>>>,
     <<"<U+03CB>", <<"<U+03AB>">>>>, <<"<U+03CC>", <<"<U+038C>">>>>,
     <<"<U+03CD>", <<"<U+038E>">>>>, <<"<U+03CE>", <<"<U+038F>">>>>,
     <<"<U+03D0>", <<"<U+0392>">>>>, <<"<U+03D1>", <<"<U+0398>">>>>,
     <<"<U+03D5>", <<"<U+03A6>">>>>, <<"<U+03D6>", <<"<U+03A0>">>>>,
     <<"<U+03D7>", <<"<U+03CF>">>>>, <<"<U+03D9>", <<"<U+03D8>">>>>,
     <<"<U+03DB>", <<"<U+03DA>">>>>, <<"<U+03DD>", <<"<U+03DC>">>>>,
     <<"<U+03DF>", <<"<U+03DE>">>>>, <<"<U+03E1>", <<"<U+03E0>">>>>,
     <<"<U+03E3>", <<"<U+03E2>">>>>, <<"<U+03E5>", <<"<U+03E4>">>>>,
     <<"<U+03E7>", <<"<U+03E6>">>>>, <<"<U+03E9>", <<"<U+03E8>">>>>,
     <<"<U+03EB>", <<"<U+03EA>">>>>, <<"<U+03ED>", <<"<U+03EC>">>>>,
     <<"<U+03EF>", <<"<U+03EE>">>>>, <<"<U+03F0>", <<"<U+039A>">>>>,
     <<"<U+03F1>", <<"<U+03A1>">>>>, <<"<U+03F2>", <<"<U+03F9>">>>>,
     <<"<U+03F3>", <<"<U+037F>">>>>, <<"<U+03F5>", <<"<U+0395>">>>>,
     <<"<U+03F8>", <<"<U+03F7>">>>>, <<"<U+03FB>", <<"<U+03FA>">>>>,
     <<"<U+0430>", <<"<U+0410>">>>>, <<"<U+0431>", <<"<U+0411>">>>>,
     <<"<U+0432>", <<"<U+0412>">>>>, <<"<U+0433>", <<"<U+0413>">>>>,
     <<"<U+0434>", <<"<U+0414>">>>>, <<"<U+0435>", <<"<U+0415>">>>>,
     <<"<U+0436>", <<"<U+0416>">>>>, <<"<U+0437>", <<"<U+0417>">>>>,
     <<"<U+0438>", <<"<U+0418>">>>>, <<"<U+0439>", <<"<U+0419>">>>>,
     <<"<U+043A>", <<"<U+041A>">>>>, <<"<U+043B>", <<"<U+041B>">>>>,
     <<"<U+043C>", <<"<U+041C>">>>>, <<"<U+043D>", <<"<U+041D>">>>>,
     <<"<U+043E>", <<"<U+041E>">>>>, <<"<U+043F>", <<"<U+041F>">>>>,
     <<"<U+0440>", <<"<U+0420>">>>>, <<"<U+0441>", <<"<U+0421>">>>>,
     <<"<U+0442>", <<"<U+0422>">>>>, <<"<U+0443>", <<"<U+0423>">>>>,
     <<"<U+0444>", <<"<U+0424>">>>>, <<"<U+0445>", <<"<U+0425>">>>>,
     <<"<U+0446>", <<"<U+0426>">>>>, <<"<U+0447>", <<"<U+0427>">>>>,
     <<"<U+0448>", <<"<U+0428>">>>>, <<"<U+0449>", <<"<U+0429>">>>>,
     <<"<U+044A>", <<"<U+042A>">>>>, <<"<U+044B>", <<"<U+042B>">>>>,
     <<"<U+044C>", <<"<U+042C>">>>>, <<"<U+044D>", <<"<U+042D>">>>>,
     <<"<U+044E>", <<"<U+042E>">>>>, <<"<U+044F>", <<"<U+042F>">>>>,
     <<"<U+0450>", <<"<U+0400>">>>>, <<"<U+0451>", <<"<U+0401>">>>>,
     <<"<U+0452>", <<"<U+0402>">>>>, <<"<U+0453>", <<"<U+0403>">>>>,
     <<"<U+0454>", <<"<U+0404>">>>>, <<"<U+0455>", <<"<U+0405>">>>>,
     <<"<U+0456>", <<"<U+0406>">>>>, <<"<U+0457>", <<"<U+0407>">>>>,
     <<"<U+0458>", <<"<U+0408>">>>>, <<"<U+0459>", <<"<U+0409>">>>>,
     <<"<U+045A>", <<"<U+040A>">>>>, <<"<U+045B>", <<"<U+040B>">>>>,
     <<"<U+045C>", <<"<U+040C>">>>>, <<"<U+045D>", <<"<U+040D>">>>>,
     <<"<U+045E>", <<"<U+040E>">>>>, <<"<U+045F>", <<"<U+040F>">>>>,
     <<"<U+0461>", <<"<U+0460>">>>>, <<"<U+0463>", <<"<U+0462>">>>>,
     <<"<U+0465>", <<"<U+0464>">>>>, <<"<U+0467>", <<"<U+0466>">>>>,
     <<"<U+0469>", <<"<U+0468>">>>>, <<"<U+046B>", <<"<U+046A>">>>>,
     <<"<U+046D>", <<"<U+046C>">>>>, <<"<U+046F>", <<"<U+046E>">>>>,
     <<"<U+0471>", <<"<U+0470>">>>>, <<"<U+0473>", <<"<U+0472>">>>>,
     <<"<U+0475>", <<"<U+0474>">>>>, <<"<U+0477>", <<"<U+0476>">>>>,
     <<"<U+0479>", <<"<U+0478>">>>>, <<"<U+047B>", <<"<U+047A>">>>>,
     <<"<U+047D>", <<"<U+047C>">>>>, <<"<U+047F>", <<"<U+047E>">>>>,
     <<"<U+0481>", <<"<U+0480>">>>>, <<"<U+048B>", <<"<U+048A>">>>>,
     <<"<U+048D>", <<"<U+048C>">>>>, <<"<U+048F>", <<"<U+048E>">>>>,
     <<"<U+0491>", <<"<U+0490>">>>>, <<"<U+0493>", <<"<U+0492>">>>>,
     <<"<U+0495>", <<"<U+0494>">>>>, <<"<U+0497>", <<"<U+0496>">>>>,
     <<"<U+0499>", <<"<U+0498>">>>>, <<"<U+049B>", <<"<U+049A>">>>>,
     <<"<U+049D>", <<"<U+049C>">>>>, <<"<U+049F>", <<"<U+049E>">>>>,
     <<"<U+04A1>", <<"<U+04A0>">>>>, <<"<U+04A3>", <<"<U+04A2>">>>>,
     <<"<U+04A5>", <<"<U+04A4>">>>>, <<"<U+04A7>", <<"<U+04A6>">>>>,
     <<"<U+04A9>", <<"<U+04A8>">>>>, <<"<U+04AB>", <<"<U+04AA>">>>>,
     <<"<U+04AD>", <<"<U+04AC>">>>>, <<"<U+04AF>", <<"<U+04AE>">>>>,
     <<"<U+04B1>", <<"<U+04B0>">>>>, <<"<U+04B3>", <<"<U+04B2>">>>>,
     <<"<U+04B5>", <<"<U+04B4>">>>>, <<"<U+04B7>", <<"<U+04B6>">>>>,
     <<"<U+04B9>", <<"<U+04B8>">>>>, <<"<U+04BB>", <<"<U+04BA>">>>>,
     <<"<U+04BD>", <<"<U+04BC>">>>>, <<"<U+04BF>", <<"<U+04BE>">>>>,
     <<"<U+04C2>", <<"<U+04C1>">>>>, <<"<U+04C4>", <<"<U+04C3>">>>>,
     <<"<U+04C6>", <<"<U+04C5>">>>>, <<"<U+04C8>", <<"<U+04C7>">>>>,
     <<"<U+04CA>", <<"<U+04C9>">>>>, <<"<U+04CC>", <<"<U+04CB>">>>>,
     <<"<U+04CE>", <<"<U+04CD>">>>>, <<"<U+04CF>", <<"<U+04C0>">>>>,
     <<"<U+04D1>", <<"<U+04D0>">>>>, <<"<U+04D3>", <<"<U+04D2>">>>>,
     <<"<U+04D5>", <<"<U+04D4>">>>>, <<"<U+04D7>", <<"<U+04D6>">>>>,
     <<"<U+04D9>", <<"<U+04D8>">>>>, <<"<U+04DB>", <<"<U+04DA>">>>>,
     <<"<U+04DD>", <<"<U+04DC>">>>>, <<"<U+04DF>", <<"<U+04DE>">>>>,
     <<"<U+04E1>", <<"<U+04E0>">>>>, <<"<U+04E3>", <<"<U+04E2>">>>>,
     <<"<U+04E5>", <<"<U+04E4>">>>>, <<"<U+04E7>", <<"<U+04E6>">>>>,
     <<"<U+04E9>", <<"<U+04E8>">>>>, <<"<U+04EB>", <<"<U+04EA>">>>>,
     <<"<U+04ED>", <<"<U+04EC>">>>>, <<"<U+04EF>", <<"<U+04EE>">>>>,
     <<"<U+04F1>", <<"<U+04F0>">>>>, <<"<U+04F3>", <<"<U+04F2>">>>>,
     <<"<U+04F5>", <<"<U+04F4>">>>>, <<"<U+04F7>", <<"<U+04F6>">>>>,
     <<"<U+04F9>", <<"<U+04F8>">>>>, <<"<U+04FB>", <<"<U+04FA>">>>>,
     <<"<U+04FD>", <<"<U+04FC>">>>>, <<"<U+04FF>", <<"<U+04FE>">>>>,
     <<"<U+0501>", <<"<U+0500>">>>>, <<"<U+0503>", <<"<U+0502>">>>>,
     <<"<U+0505>", <<"<U+0504>">>>>, <<"<U+0507>", <<"<U+0506>">>>>,
     <<"<U+0509>", <<"<U+0508>">>>>, <<"<U+050B>", <<"<U+050A>">>>>,
     <<"<U+050D>", <<"<U+050C>">>>>, <<"<U+050F>", <<"<U+050E>">>>>,
     <<"<U+0511>", <<"<U+0510>">>>>, <<"<U+0513>", <<"<U+0512>">>>>,
     <<"<U+0515>", <<"<U+0514>">>>>, <<"<U+0517>", <<"<U+0516>">>>>,
     <<"<U+0519>", <<"<U+0518>">>>>, <<"<U+051B>", <<"<U+051A>">>>>,
     <<"<U+051D>", <<"<U+051C>">>>>, <<"<U+051F>", <<"<U+051E>">>>>,
     <<"<U+0521>", <<"<U+0520>">>>>, <<"<U+0523>", <<"<U+0522>">>>>,
     <<"<U+0525>", <<"<U+0524>">>>>, <<"<U+0527>", <<"<U+0526>">>>>,
     <<"<U+0529>", <<"<U+0528>">>>>, <<"<U+052B>", <<"<U+052A>">>>>,
     <<"<U+052D>", <<"<U+052C>">>>>, <<"<U+052F>", <<"<U+052E>">>>>,
     <<"<U+0561>", <<"<U+0531>">>>>, <<"<U+0562>", <<"<U+0532>">>>>,
     <<"<U+0563>", <<"<U+0533>">>>>, <<"<U+0564>", <<"<U+0534>">>>>,
     <<"<U+0565>", <<"<U+0535>">>>>, <<"<U+0566>", <<"<U+0536>">>>>,
     <<"<U+0567>", <<"<U+0537>">>>>, <<"<U+0568>", <<"<U+0538>">>>>,
     <<"<U+0569>", <<"<U+0539>">>>>, <<"<U+056A>", <<"<U+053A>">>>>,
     <<"<U+056B>", <<"<U+053B>">>>>, <<"<U+056C>", <<"<U+053C>">>>>,
     <<"<U+056D>", <<"<U+053D>">>>>, <<"<U+056E>", <<"<U+053E>">>>>,
     <<"<U+056F>", <<"<U+053F>">>>>, <<"<U+0570>", <<"<U+0540>">>>>,
     <<"<U+0571>", <<"<U+0541>">>>>, <<"<U+0572>", <<"<U+0542>">>>>,
     <<"<U+0573>", <<"<U+0543>">>>>, <<"<U+0574>", <<"<U+0544>">>>>,
     <<"<U+0575>", <<"<U+0545>">>>>, <<"<U+0576>", <<"<U+0546>">>>>,
     <<"<U+0577>", <<"<U+0547>">>>>, <<"<U+0578>", <<"<U+0548>">>>>,
     <<"<U+0579>", <<"<U+0549>">>>>, <<"<U+057A>", <<"<U+054A>">>>>,
     <<"<U+057B>", <<"<U+054B>">>>>, <<"<U+057C>", <<"<U+054C>">>>>,
     <<"<U+057D>", <<"<U+054D>">>>>, <<"<U+057E>", <<"<U+054E>">>>>,
     <<"<U+057F>", <<"<U+054F>">>>>, <<"<U+0580>", <<"<U+0550>">>>>,
     <<"<U+0581>", <<"<U+0551>">>>>, <<"<U+0582>", <<"<U+0552>">>>>,
     <<"<U+0583>", <<"<U+0553>">>>>, <<"<U+0584>", <<"<U+0554>">>>>,
     <<"<U+0585>", <<"<U+0555>">>>>, <<"<U+0586>", <<"<U+0556>">>>>,
     <<"<U+0587>", <<"<U+0535>", "<U+0552>">>>>,
     <<"<U+10D0>", <<"<U+1C90>">>>>, <<"<U+10D1>", <<"<U+1C91>">>>>,
     <<"<U+10D2>", <<"<U+1C92>">>>>, <<"<U+10D3>", <<"<U+1C93>">>>>,
     <<"<U+10D4>", <<"<U+1C94>">>>>, <<"<U+10D5>", <<"<U+1C95>">>>>,
     <<"<U+10D6>", <<"<U+1C96>">>>>, <<"<U+10D7>", <<"<U+1C97>">>>>,
     <<"<U+10D8>", <<"<U+1C98>">>>>, <<"<U+10D9>", <<"<U+1C99>">>>>,
     <<"<U+10DA>", <<"<U+1C9A>">>>>, <<"<U+10DB>", <<"<U+1C9B>">>>>,
     <<"<U+10DC>", <<"<U+1C9C>">>>>, <<"<U+10DD>", <<"<U+1C9D>">>>>,
     <<"<U+10DE>", <<"<U+1C9E>">>>>, <<"<U+10DF>", <<"<U+1C9F>">>>>,
     <<"<U+10E0>", <<"<U+1CA0>">>>>, <<"<U+10E1>", <<"<U+1CA1>">>>>,
     <<"<U+10E2>", <<"<U+1CA2>">>>>, <<"<U+10E3>", <<"<U+1CA3>">>>>,
     <<"<U+10E4>", <<"<U+1CA4>">>>>, <<"<U+10E5>", <<"<U+1CA5>">>>>,
     <<"<U+10E6>", <<"<U+1CA6>">>>>, <<"<U+10E7>", <<"<U+1CA7>">>>>,
     <<"<U+10E8>", <<"<U+1CA8>">>>>, <<"<U+10E9>", <<"<U+1CA9>">>>>,
     <<"<U+10EA>", <<"<U+1CAA>">>>>, <<"<U+10EB>", <<"<U+1CAB>">>>>,
     <<"<U+10EC>", <<"<U+1CAC>">>>>, <<"<U+10ED>", <<"<U+1CAD>">>>>,
     <<"<U+10EE>", <<"<U+1CAE>">>>>, <<"<U+10EF>", <<"<U+1CAF>">>>>,
     <<"<U+10F0>", <<"<U+1CB0>">>>>, <<"<U+10F1>", <<"<U+1CB1>">>>>,
     <<"<U+10F2>", <<"<U+1CB2>">>>>, <<"<U+10F3>", <<"<U+1CB3>">>>>,
     <<"<U+10F4>", <<"<U+1CB4>">>>>, <<"<U+10F5>", <<"<U+1CB5>">>>>,
     <<"<U+10F6>", <<"<U+1CB6>">>>>, <<"<U+10F7>", <<"<U+1CB7>">>>>,
     <<"<U+10F8>", <<"<U+1CB8>">>>>, <<"<U+10F9>", <<"<U+1CB9>">>>>,
     <<"<U+10FA>", <<"<U+1CBA>">>>>, <<"<U+10FD>", <<"<U+1CBD>">>>>,
     <<"<U+10FE>", <<"<U+1CBE>">>>>, <<"<U+10FF>", <<"<U+1CBF>">>>>,
     <<"<U+13F8>", <<"<U+13F0>">>>>, <<"<U+13F9>", <<"<U+13F1>">>>>,
     <<"<U+13FA>", <<"<U+13F2>">>>>, <<"<U+13FB>", <<"<U+13F3>">>>>,
     <<"<U+13FC>", <<"<U+13F4>">>>>, <<"<U+13FD>", <<"<U+13F5>">>>>,
     <<"<U+1C80>", <<"<U+0412>">>>>, <<"<U+1C81>", <<"<U+0414>">>>>,
     <<"<U+1C82>", <<"<U+041E>">>>>, <<"<U+1C83>", <<"<U+0421>">>>>,
     <<"<U+1C84>", <<"<U+0422>">>>>, <<"<U+1C85>", <<"<U+0422>">>>>,
     <<"<U+1C86>", <<"<U+042A>">>>>, <<"<U+1C87>", <<"<U+0462>">>>>,
     <<"<U+1C88>", <<"<U+A64A>">>>>, <<"<U+1D79>", <<"<U+A77D>">>>>,
     <<"<U+1D7D>", <<"<U+2C63>">>>>, <<"<U+1D8E>", <<"<U+A7C6>">>>>,
     <<"<U+1E01>", <<"<U+1E00>">>>>, <<"<U+1E03>", <<"<U+1E02>">>>>,
     <<"<U+1E05>", <<"<U+1E04>">>>>, <<"<U+1E07>", <<"<U+1E06>">>>>,
     <<"<U+1E09>", <<"<U+1E08>">>>>, <<"<U+1E0B>", <<"<U+1E0A>">>>>,
     <<"<U+1E0D>", <<"<U+1E0C>">>>>, <<"<U+1E0F>", <<"<U+1E0E>">>>>,
     <<"<U+1E11>", <<"<U+1E10>">>>>, <<"<U+1E13>", <<"<U+1E12>">>>>,
     <<"<U+1E15>", <<"<U+1E14>">>>>, <<"<U+1E17>", <<"<U+1E16>">>>>,
     <<"<U+1E19>", <<"<U+1E18>">>>>, <<"<U+1E1B>", <<"<U+1E1A>">>>>,
     <<"<U+1E1D>", <<"<U+1E1C>">>>>, <<"<U+1E1F>", <<"<U+1E1E>">>>>,
     <<"<U+1E21>", <<"<U+1E20>">>>>, <<"<U+1E23>", <<"<U+1E22>">>>>,
     <<"<U+1E25>", <<"<U+1E24>">>>>, <<"<U+1E27>", <<"<U+1E26>">>>>,
     <<"<U+1E29>", <<"<U+1E28>">>>>, <<"<U+1E2B>", <<"<U+1E2A>">>>>,
     <<"<U+1E2D>", <<"<U+1E2C>">>>>, <<"<U+1E2F>", <<"<U+1E2E>">>>>,
     <<"<U+1E31>", <<"<U+1E30>">>>>, <<"<U+1E33>", <<"<U+1E32>">>>>,
     <<"<U+1E35>", <<"<U+1E34>">>>>, <<"<U+1E37>", <<"<U+1E36>">>>>,
     <<"<U+1E39>", <<"<U+1E38>">>>>, <<"<U+1E3B>", <<"<U+1E3A>">>>>,
     <<"<U+1E3D>", <<"<U+1E3C>">>>>, <<"<U+1E3F>", <<"<U+1E3E>">>>>,
     <<"<U+1E41>", <<"<U+1E40>">>>>, <<"<U+1E43>", <<"<U+1E42>">>>>,
     <<"<U+1E45>", <<"<U+1E44>">>>>, <<"<U+1E47>", <<"<U+1E46>">>>>,
     <<"<U+1E49>", <<"<U+1E48>">>>>, <<"<U+1E4B>", <<"<U+1E4A>">>>>,
     <<"<U+1E4D>", <<"<U+1E4C>">>>>, <<"<U+1E4F>", <<"<U+1E4E>">>>>,
     <<"<U+1E51>", <<"<U+1E50>">>>>, <<"<U+1E53>", <<"<U+1E52>">>>>,
     <<"<U+1E55>", <<"<U+1E54>">>>>, <<"<U+1E57>", <<"<U+1E56>">>>>,
     <<"<U+1E59>", <<"<U+1E58>">>>>, <<"<U+1E5B>", <<"<U+1E5A>">>>>,
     <<"<U+1E5D>", <<"<U+1E5C>">>>>, <<"<U+1E5F>", <<"<U+1E5E>">>>>,
     <<"<U+1E61>", <<"<U+1E60>">>>>, <<"<U+1E63>", <<"<U+1E62>">>>>,
     <<"<U+1E65>", <<"<U+1E64>">>>>, <<"<U+1E67>", <<"<U+1E66>">>>>,
     <<"<U+1E69>", <<"<U+1E68>">>>>, <<"<U+1E6B>", <<"<U+1E6A>">>>>,
     <<"<U+1E6D>", <<"<U+1E6C>">>>>, <<"<U+1E6F>", <<"<U+1E6E>">>>>,
     <<"<U+1E71>", <<"<U+1E70>">>>>, <<"<U+1E73>", <<"<U+1E72>">>>>,
     <<"<U+1E75>", <<"<U+1E74>">>>>, <<"<U+1E77>", <<"<U+1E76>">>>>,
     <<"<U+1E79>", <<"<U+1E78>">>>>, <<"<U+1E7B>", <<"<U+1E7A>">>>>,
     <<"<U+1E7D>", <<"<U+1E7C>">>>>, <<"<U+1E7F>", <<"<U+1E7E>">>>>,
     <<"<U+1E81>", <<"<U+1E80>">>>>, <<"<U+1E83>", <<"<U+1E82>">>>>,
     <<"<U+1E85>", <<"<U+1E84>">>>>, <<"<U+1E87>", <<"<U+1E86>">>>>,
     <<"<U+1E89>", <<"<U+1E88>">>>>, <<"<U+1E8B>", <<"<U+1E8A>">>>>,
     <<"<U+1E8D>", <<"<U+1E8C>">>>>, <<"<U+1E8F>", <<"<U+1E8E>">>>>,
     <<"<U+1E91>", <<"<U+1E90>">>>>, <<"<U+1E93>", <<"<U+1E92>">>>>,
     <<"<U+1E95>", <<"<U+1E94>">>>>, <<"<U+1E96>", <<"H", "<U+0331>">>>>,
     <<"<U+1E97>", <<"T", "<U+0308>">>>>,
     <<"<U+1E98>", <<"W", "<U+030A>">>>>,
     <<"<U+1E99>", <<"Y", "<U+030A>">>>>,
     <<"<U+1E9A>", <<"A", "<U+02BE>">>>>, <<"<U+1E9B>", <<"<U+1E60>">>>>,
     <<"<U+1EA1>", <<"<U+1EA0>">>>>, <<"<U+1EA3>", <<"<U+1EA2>">>>>,
     <<"<U+1EA5>", <<"<U+1EA4>">>>>, <<"<U+1EA7>", <<"<U+1EA6>">>>>,
     <<"<U+1EA9>", <<"<U+1EA8>">>>>, <<"<U+1EAB>", <<"<U+1EAA>">>>>,
     <<"<U+1EAD>", <<"<U+1EAC>">>>>, <<"<U+1EAF>", <<"<U+1EAE>">>>>,
     <<"<U+1EB1>", <<"<U+1EB0>">>>>, <<"<U+1EB3>", <<"<U+1EB2>">>>>,
     <<"<U+1EB5>", <<"<U+1EB4>">>>>, <<"<U+1EB7>", <<"<U+1EB6>">>>>,
     <<"<U+1EB9>", <<"<U+1EB8>">>>>, <<"<U+1EBB>", <<"<U+1EBA>">>>>,
     <<"<U+1EBD>", <<"<U+1EBC>">>>>, <<"<U+1EBF>", <<"<U+1EBE>">>>>,
     <<"<U+1EC1>", <<"<U+1EC0>">>>>, <<"<U+1EC3>", <<"<U+1EC2>">>>>,
     <<"<U+1EC5>", <<"<U+1EC4>">>>>, <<"<U+1EC7>", <<"<U+1EC6>">>>>,
     <<"<U+1EC9>", <<"<U+1EC8>">>>>, <<"<U+1ECB>", <<"<U+1ECA>">>>>,
     <<"<U+1ECD>", <<"<U+1ECC>">>>>, <<"<U+1ECF>", <<"<U+1ECE>">>>>,
     <<"<U+1ED1>", <<"<U+1ED0>">>>>, <<"<U+1ED3>", <<"<U+1ED2>">>>>,
     <<"<U+1ED5>", <<"<U+1ED4>">>>>, <<"<U+1ED7>", <<"<U+1ED6>">>>>,
     <<"<U+1ED9>", <<"<U+1ED8>">>>>, <<"<U+1EDB>", <<"<U+1EDA>">>>>,
     <<"<U+1EDD>", <<"<U+1EDC>">>>>, <<"<U+1EDF>", <<"<U+1EDE>">>>>,
     <<"<U+1EE1>", <<"<U+1EE0>">>>>, <<"<U+1EE3>", <<"<U+1EE2>">>>>,
     <<"<U+1EE5>", <<"<U+1EE4>">>>>, <<"<U+1EE7>", <<"<U+1EE6>">>>>,
     <<"<U+1EE9>", <<"<U+1EE8>">>>>, <<"<U+1EEB>", <<"<U+1EEA>">>>>,
     <<"<U+1EED>", <<"<U+1EEC>">>>>, <<"<U+1EEF>", <<"<U+1EEE>">>>>,
     <<"<U+1EF1>", <<"<U+1EF0>">>>>, <<"<U+1EF3>", <<"<U+1EF2>">>>>,
     <<"<U+1EF5>", <<"<U+1EF4>">>>>, <<"<U+1EF7>", <<"<U+1EF6>">>>>,
     <<"<U+1EF9>", <<"<U+1EF8>">>>>, <<"<U+1EFB>", <<"<U+1EFA>">>>>,
     <<"<U+1EFD>", <<"<U+1EFC>">>>>, <<"<U+1EFF>", <<"<U+1EFE>">>>>,
     <<"<U+1F00>", <<"<U+1F08>">>>>, <<"<U+1F01>", <<"<U+1F09>">>>>,
     <<"<U+1F02>", <<"<U+1F0A>">>>>, <<"<U+1F03>", <<"<U+1F0B>">>>>,
     <<"<U+1F04>", <<"<U+1F0C>">>>>, <<"<U+1F05>", <<"<U+1F0D>">>>>,
     <<"<U+1F06>", <<"<U+1F0E>">>>>, <<"<U+1F07>", <<"<U+1F0F>">>>>,
     <<"<U+1F10>", <<"<U+1F18>">>>>, <<"<U+1F11>", <<"<U+1F19>">>>>,
     <<"<U+1F12>", <<"<U+1F1A>">>>>, <<"<U+1F13>", <<"<U+1F1B>">>>>,
     <<"<U+1F14>", <<"<U+1F1C>">>>>, <<"<U+1F15>", <<"<U+1F1D>">>>>,
     <<"<U+1F20>", <<"<U+1F28>">>>>, <<"<U+1F21>", <<"<U+1F29>">>>>,
     <<"<U+1F22>", <<"<U+1F2A>">>>>, <<"<U+1F23>", <<"<U+1F2B>">>>>,
     <<"<U+1F24>", <<"<U+1F2C>">>>>, <<"<U+1F25>", <<"<U+1F2D>">>>>,
     <<"<U+1F26>", <<"<U+1F2E>">>>>, <<"<U+1F27>", <<"<U+1F2F>">>>>,
     <<"<U+1F30>", <<"<U+1F38>">>>>, <<"<U+1F31>", <<"<U+1F39>">>>>,
     <<"<U+1F32>", <<"<U+1F3A>">>>>, <<"<U+1F33>", <<"<U+1F3B>">>>>,
     <<"<U+1F34>", <<"<U+1F3C>">>>>, <<"<U+1F35>", <<"<U+1F3D>">>>>,
     <<"<U+1F36>", <<"<U+1F3E>">>>>, <<"<U+1F37>", <<"<U+1F3F>">>>>,
     <<"<U+1F40>", <<"<U+1F48>">>>>, <<"<U+1F41>", <<"<U+1F49>">>>>,
     <<"<U+1F42>", <<"<U+1F4A>">>>>, <<"<U+1F43>", <<"<U+1F4B>">>>>,
     <<"<U+1F44>", <<"<U+1F4C>">>>>, <<"<U+1F45>", <<"<U+1F4D>">>>>,
     <<"<U+1F50>", <<"<U+03A5>", "<U+0313>">>>>,
     <<"<U+1F51>", <<"<U+1F59>">>>>,
     <<"<U+1F52>", <<"<U+03A5>", "<U+0313>", "<U+0300>">>>>,
     <<"<U+1F53>", <<"<U+1F5B>">>>>,
     <<"<U+1F54>", <<"<U+03A5>", "<U+0313>", "<U+0301>">>>>,
     <<"<U+1F55>", <<"<U+1F5D>">>>>,
     <<"<U+1F56>", <<"<U+03A5>", "<U+0313>", "<U+0342>">>>>,
     <<"<U+1F57>", <<"<U+1F5F>">>>>, <<"<U+1F60>", <<"<U+1F68>">>>>,
     <<"<U+1F61>", <<"<U+1F69>">>>>, <<"<U+1F62>", <<"<U+1F6A>">>>>,
     <<"<U+1F63>", <<"<U+1F6B>">>>>, <<"<U+1F64>", <<"<U+1F6C>">>>>,
     <<"<U+1F65>", <<"<U+1F6D>">>>>, <<"<U+1F66>", <<"<U+1F6E>">>>>,
     <<"<U+1F67>", <<"<U+1F6F>">>>>, <<"<U+1F70>", <<"<U+1FBA>">>>>,
     <<"<U+1F71>", <<"<U+1FBB>">>>>, <<"<U+1F72>", <<"<U+1FC8>">>>>,
     <<"<U+1F73>", <<"<U+1FC9>">>>>, <<"<U+1F74>", <<"<U+1FCA>">>>>,
     <<"<U+1F75>", <<"<U+1FCB>">>>>, <<"<U+1F76>", <<"<U+1FDA>">>>>,
     <<"<U+1F77>", <<"<U+1FDB>">>>>, <<"<U+1F78>", <<"<U+1FF8>">>>>,
     <<"<U+1F79>", <<"<U+1FF9>">>>>, <<"<U+1F7A>", <<"<U+1FEA>">>>>,
     <<"<U+1F7B>", <<"<U+1FEB>">>>>, <<"<U+1F7C>", <<"<U+1FFA>">>>>,
     <<"<U+1F7D>", <<"<U+1FFB>">>>>,
     <<"<U+1F80>", <<"<U+1F08>", "<U+0399>">>>>,
     <<"<U+1F81>", <<"<U+1F09>", "<U+0399>">>>>,
     <<"<U+1F82>", <<"<U+1F0A>", "<U+0399>">>>>,
     <<"<U+1F83>", <<"<U+1F0B>", "<U+0399>">>>>,
     <<"<U+1F84>", <<"<U+1F0C>", "<U+0399>">>>>,
     <<"<U+1F85>", <<"<U+1F0D>", "<U+0399>">>>>,
     <<"<U+1F86>", <<"<U+1F0E>", "<U+0399>">>>>,
     <<"<U+1F87>", <<"<U+1F0F>", "<U+0399>">>>>,
     <<"<U+1F88>", <<"<U+1F08>", "<U+0399>">>>>,
     <<"<U+1F89>", <<"<U+1F09>", "<U+0399>">>>>,
     <<"<U+1F8A>", <<"<U+1F0A>", "<U+0399>">>>>,
     <<"<U+1F8B>", <<"<U+1F0B>", "<U+0399>">>>>,
     <<"<U+1F8C>", <<"<U+1F0C>", "<U+0399>">>>>,
     <<"<U+1F8D>", <<"<U+1F0D>", "<U+0399>">>>>,
     <<"<U+1F8E>", <<"<U+1F0E>", "<U+0399>">>>>,
     <<"<U+1F8F>", <<"<U+1F0F>", "<U+0399>">>>>,
     <<"<U+1F90>", <<"<U+1F28>", "<U+0399>">>>>,
     <<"<U+1F91>", <<"<U+1F29>", "<U+0399>">>>>,
     <<"<U+1F92>", <<"<U+1F2A>", "<U+0399>">>>>,
     <<"<U+1F93>", <<"<U+1F2B>", "<U+0399>">>>>,
     <<"<U+1F94>", <<"<U+1F2C>", "<U+0399>">>>>,
     <<"<U+1F95>", <<"<U+1F2D>", "<U+0399>">>>>,
     <<"<U+1F96>", <<"<U+1F2E>", "<U+0399>">>>>,
     <<"<U+1F97>", <<"<U+1F2F>", "<U+0399>">>>>,
     <<"<U+1F98>", <<"<U+1F28>", "<U+0399>">>>>,
     <<"<U+1F99>", <<"<U+1F29>", "<U+0399>">>>>,
     <<"<U+1F9A>", <<"<U+1F2A>", "<U+0399>">>>>,
     <<"<U+1F9B>", <<"<U+1F2B>", "<U+0399>">>>>,
     <<"<U+1F9C>", <<"<U+1F2C>", "<U+0399>">>>>,
     <<"<U+1F9D>", <<"<U+1F2D>", "<U+0399>">>>>,
     <<"<U+1F9E>", <<"<U+1F2E>", "<U+0399>">>>>,
     <<"<U+1F9F>", <<"<U+1F2F>", "<U+0399>">>>>,
     <<"<U+1FA0>", <<"<U+1F68>", "<U+0399>">>>>,
     <<"<U+1FA1>", <<"<U+1F69>", "<U+0399>">>>>,
     <<"<U+1FA2>", <<"<U+1F6A>", "<U+0399>">>>>,
     <<"<U+1FA3>", <<"<U+1F6B>", "<U+0399>">>>>,
     <<"<U+1FA4>", <<"<U+1F6C>", "<U+0399>">>>>,
     <<"<U+1FA5>", <<"<U+1F6D>", "<U+0399>">>>>,
     <<"<U+1FA6>", <<"<U+1F6E>", "<U+0399>">>>>,
     <<"<U+1FA7>", <<"<U+1F6F>", "<U+0399>">>>>,
     <<"<U+1FA8>", <<"<U+1F68>", "<U+0399>">>>>,
     <<"<U+1FA9>", <<"<U+1F69>", "<U+0399>">>>>,
     <<"<U+1FAA>", <<"<U+1F6A>", "<U+0399>">>>>,
     <<"<U+1FAB>", <<"<U+1F6B>", "<U+0399>">>>>,
     <<"<U+1FAC>", <<"<U+1F6C>", "<U+0399>">>>>,
     <<"<U+1FAD>", <<"<U+1F6D>", "<U+0399>">>>>,
     <<"<U+1FAE>", <<"<U+1F6E>", "<U+0399>">>>>,
     <<"<U+1FAF>", <<"<U+1F6F>", "<U+0399>">>>>,
     <<"<U+1FB0>", <<"<U+1FB8>">>>>, <<"<U+1FB1>", <<"<U+1FB9>">>>>,
     <<"<U+1FB2>", <<"<U+1FBA>", "<U+0399>">>>>,
     <<"<U+1FB3>", <<"<U+0391>", "<U+0399>">>>>,
     <<"<U+1FB4>", <<"<U+0386>", "<U+0399>">>>>,
     <<"<U+1FB6>", <<"<U+0391>", "<U+0342>">>>>,
     <<"<U+1FB7>", <<"<U+0391>", "<U+0342>", "<U+0399>">>>>,
     <<"<U+1FBC>", <<"<U+0391>", "<U+0399>">>>>,
     <<"<U+1FBE>", <<"<U+0399>">>>>,
     <<"<U+1FC2>", <<"<U+1FCA>", "<U+0399>">>>>,
     <<"<U+1FC3>", <<"<U+0397>", "<U+0399>">>>>,
     <<"<U+1FC4>", <<"<U+0389>", "<U+0399>">>>>,
     <<"<U+1FC6>", <<"<U+0397>", "<U+0342>">>>>,
     <<"<U+1FC7>", <<"<U+0397>", "<U+0342>", "<U+0399>">>>>,
     <<"<U+1FCC>", <<"<U+0397>", "<U+0399>">>>>,
     <<"<U+1FD0>", <<"<U+1FD8>">>>>, <<"<U+1FD1>", <<"<U+1FD9>">>>>,
     <<"<U+1FD2>", <<"<U+0399>", "<U+0308>", "<U+0300>">>>>,
     <<"<U+1FD3>", <<"<U+0399>", "<U+0308>", "<U+0301>">>>>,
     <<"<U+1FD6>", <<"<U+0399>", "<U+0342>">>>>,
     <<"<U+1FD7>", <<"<U+0399>", "<U+0308>", "<U+0342>">>>>,
     <<"<U+1FE0>", <<"<U+1FE8>">>>>, <<"<U+1FE1>", <<"<U+1FE9>">>>>,
     <<"<U+1FE2>", <<"<U+03A5>", "<U+0308>", "<U+0300>">>>>,
     <<"<U+1FE3>", <<"<U+03A5>", "<U+0308>", "<U+0301>">>>>,
     <<"<U+1FE4>", <<"<U+03A1>", "<U+0313>">>>>,
     <<"<U+1FE5>", <<"<U+1FEC>">>>>,
     <<"<U+1FE6>", <<"<U+03A5>", "<U+0342>">>>>,
     <<"<U+1FE7>", <<"<U+03A5>", "<U+0308>", "<U+0342>">>>>,
     <<"<U+1FF2>", <<"<U+1FFA>", "<U+0399>">>>>,
     <<"<U+1FF3>", <<"<U+03A9>", "<U+0399>">>>>,
     <<"<U+1FF4>", <<"<U+038F>", "<U+0399>">>>>,
     <<"<U+1FF6>", <<"<U+03A9>", "<U+0342>">>>>,
     <<"<U+1FF7>", <<"<U+03A9>", "<U+0342>", "<U+0399>">>>>,
     <<"<U+1FFC>", <<"<U+03A9>", "<U+0399>">>>>,
     <<"<U+214E>", <<"<U+2132>">>>>, <<"<U+2170>", <<"<U+2160>">>>>,
     <<"<U+2171>", <<"<U+2161>">>>>, <<"<U+2172>", <<"<U+2162>">>>>,
     <<"<U+2173>", <<"<U+2163>">>>>, <<"<U+2174>", <<"<U+2164>">>>>,
     <<"<U+2175>", <<"<U+2165>">>>>, <<"<U+2176>", <<"<U+2166>">>>>,
     <<"<U+2177>", <<"<U+2167>">>>>, <<"<U+2178>", <<"<U+2168>">>>>,
     <<"<U+2179>", <<"<U+2169>">>>>, <<"<U+217A>", <<"<U+216A>">>>>,
     <<"<U+217B>", <<"<U+216B>">>>>, <<"<U+217C>", <<"<U+216C>">>>>,
     <<"<U+217D>", <<"<U+216D>">>>>, <<"<U+217E>", <<"<U+216E>">>>>,
     <<"<U+217F>", <<"<U+216F>">>>>, <<"<U+2184>", <<"<U+2183>">>>>,
     <<"<U+24D0>", <<"<U+24B6>">>>>, <<"<U+24D1>", <<"<U+24B7>">>>>,
     <<"<U+24D2>", <<"<U+24B8>">>>>, <<"<U+24D3>", <<"<U+24B9>">>>>,
     <<"<U+24D4>", <<"<U+24BA>">>>>, <<"<U+24D5>", <<"<U+24BB>">>>>,
     <<"<U+24D6>", <<"<U+24BC>">>>>, <<"<U+24D7>", <<"<U+24BD>">>>>,
     <<"<U+24D8>", <<"<U+24BE>">>>>, <<"<U+24D9>", <<"<U+24BF>">>>>,
     <<"<U+24DA>", <<"<U+24C0>">>>>, <<"<U+24DB>", <<"<U+24C1>">>>>,
     <<"<U+24DC>", <<"<U+24C2>">>>>, <<"<U+24DD>", <<"<U+24C3>">>>>,
     <<"<U+24DE>", <<"<U+24C4>">>>>, <<"<U+24DF>", <<"<U+24C5>">>>>,
     <<"<U+24E0>", <<"<U+24C6>">>>>, <<"<U+24E1>", <<"<U+24C7>">>>>,
     <<"<U+24E2>", <<"<U+24C8>">>>>, <<"<U+24E3>", <<"<U+24C9>">>>>,
     <<"<U+24E4>", <<"<U+24CA>">>>>, <<"<U+24E5>", <<"<U+24CB>">>>>,
     <<"<U+24E6>", <<"<U+24CC>">>>>, <<"<U+24E7>", <<"<U+24CD>">>>>,
     <<"<U+24E8>", <<"<U+24CE>">>>>, <<"<U+24E9>", <<"<U+24CF>">>>>,
     <<"<U+2C30>", <<"<U+2C00>">>>>, <<"<U+2C31>", <<"<U+2C01>">>>>,
     <<"<U+2C32>", <<"<U+2C02>">>>>, <<"<U+2C33>", <<"<U+2C03>">>>>,
     <<"<U+2C34>", <<"<U+2C04>">>>>, <<"<U+2C35>", <<"<U+2C05>">>>>,
     <<"<U+2C36>", <<"<U+2C06>">>>>, <<"<U+2C37>", <<"<U+2C07>">>>>,
     <<"<U+2C38>", <<"<U+2C08>">>>>, <<"<U+2C39>", <<"<U+2C09>">>>>,
     <<"<U+2C3A>", <<"<U+2C0A>">>>>, <<"<U+2C3B>", <<"<U+2C0B>">>>>,
     <<"<U+2C3C>", <<"<U+2C0C>">>>>, <<"<U+2C3D>", <<"<U+2C0D>">>>>,
     <<"<U+2C3E>", <<"<U+2C0E>">>>>, <<"<U+2C3F>", <<"<U+2C0F>">>>>,
     <<"<U+2C40>", <<"<U+2C10>">>>>, <<"<U+2C41>", <<"<U+2C11>">>>>,
     <<"<U+2C42>", <<"<U+2C12>">>>>, <<"<U+2C43>", <<"<U+2C13>">>>>,
     <<"<U+2C44>", <<"<U+2C14>">>>>, <<"<U+2C45>", <<"<U+2C15>">>>>,
     <<"<U+2C46>", <<"<U+2C16>">>>>, <<"<U+2C47>", <<"<U+2C17>">>>>,
     <<"<U+2C48>", <<"<U+2C18>">>>>, <<"<U+2C49>", <<"<U+2C19>">>>>,
     <<"<U+2C4A>", <<"<U+2C1A>">>>>, <<"<U+2C4B>", <<"<U+2C1B>">>>>,
     <<"<U+2C4C>", <<"<U+2C1C>">>>>, <<"<U+2C4D>", <<"<U+2C1D>">>>>,
     <<"<U+2C4E>", <<"<U+2C1E>">>>>, <<"<U+2C4F>", <<"<U+2C1F>">>>>,
     <<"<U+2C50>", <<"<U+2C20>">>>>, <<"<U+2C51>", <<"<U+2C21>">>>>,
     <<"<U+2C52>", <<"<U+2C22>">>>>, <<"<U+2C53>", <<"<U+2C23>">>>>,
     <<"<U+2C54>", <<"<U+2C24>">>>>, <<"<U+2C55>", <<"<U+2C25>">>>>,
     <<"<U+2C56>", <<"<U+2C26>">>>>, <<"<U+2C57>", <<"<U+2C27>">>>>,
     <<"<U+2C58>", <<"<U+2C28>">>>>, <<"<U+2C59>", <<"<U+2C29>">>>>,
     <<"<U+2C5A>", <<"<U+2C2A>">>>>, <<"<U+2C5B>", <<"<U+2C2B>">>>>,
     <<"<U+2C5C>", <<"<U+2C2C>">>>>, <<"<U+2C5D>", <<"<U+2C2D>">>>>,
     <<"<U+2C5E>", <<"<U+2C2E>">>>>, <<"<U+2C5F>", <<"<U+2C2F>">>>>,
     <<"<U+2C61>", <<"<U+2C60>">>>>, <<"<U+2C65>", <<"<U+023A>">>>>,
     <<"<U+2C66>", <<"<U+023E>">>>>, <<"<U+2C68>", <<"<U+2C67>">>>>,
     <<"<U+2C6A>", <<"<U+2C69>">>>>, <<"<U+2C6C>", <<"<U+2C6B>">>>>,
     <<"<U+2C73>", <<"<U+2C72>">>>>, <<"<U+2C76>", <<"<U+2C75>">>>>,
     <<"<U+2C81>", <<"<U+2C80>">>>>, <<"<U+2C83>", <<"<U+2C82>">>>>,
     <<"<U+2C85>", <<"<U+2C84>">>>>, <<"<U+2C87>", <<"<U+2C86>">>>>,
     <<"<U+2C89>", <<"<U+2C88>">>>>, <<"<U+2C8B>", <<"<U+2C8A>">>>>,
     <<"<U+2C8D>", <<"<U+2C8C>">>>>, <<"<U+2C8F>", <<"<U+2C8E>">>>>,
     <<"<U+2C91>", <<"<U+2C90>">>>>, <<"<U+2C93>", <<"<U+2C92>">>>>,
     <<"<U+2C95>", <<"<U+2C94>">>>>, <<"<U+2C97>", <<"<U+2C96>">>>>,
     <<"<U+2C99>", <<"<U+2C98>">>>>, <<"<U+2C9B>", <<"<U+2C9A>">>>>,
     <<"<U+2C9D>", <<"<U+2C9C>">>>>, <<"<U+2C9F>", <<"<U+2C9E>">>>>,
     <<"<U+2CA1>", <<"<U+2CA0>">>>>, <<"<U+2CA3>", <<"<U+2CA2>">>>>,
     <<"<U+2CA5>", <<"<U+2CA4>">>>>, <<"<U+2CA7>", <<"<U+2CA6>">>>>,
     <<"<U+2CA9>", <<"<U+2CA8>">>>>, <<"<U+2CAB>", <<"<U+2CAA>">>>>,
     <<"<U+2CAD>", <<"<U+2CAC>">>>>, <<"<U+2CAF>", <<"<U+2CAE>">>>>,
     <<"<U+2CB1>", <<"<U+2CB0>">>>>, <<"<U+2CB3>", <<"<U+2CB2>">>>>,
     <<"<U+2CB5>", <<"<U+2CB4>">>>>, <<"<U+2CB7>", <<"<U+2CB6>">>>>,
     <<"<U+2CB9>", <<"<U+2CB8>">>>>, <<"<U+2CBB>", <<"<U+2CBA>">>>>,
     <<"<U+2CBD>", <<"<U+2CBC>">>>>, <<"<U+2CBF>", <<"<U+2CBE>">>>>,
     <<"<U+2CC1>", <<"<U+2CC0>">>>>, <<"<U+2CC3>", <<"<U+2CC2>">>>>,
     <<"<U+2CC5>", <<"<U+2CC4>">>>>, <<"<U+2CC7>", <<"<U+2CC6>">>>>,
     <<"<U+2CC9>", <<"<U+2CC8>">>>>, <<"<U+2CCB>", <<"<U+2CCA>">>>>,
     <<"<U+2CCD>", <<"<U+2CCC>">>>>, <<"<U+2CCF>", <<"<U+2CCE>">>>>,
     <<"<U+2CD1>", <<"<U+2CD0>">>>>, <<"<U+2CD3>", <<"<U+2CD2>">>>>,
     <<"<U+2CD5>", <<"<U+2CD4>">>>>, <<"<U+2CD7>", <<"<U+2CD6>">>>>,
     <<"<U+2CD9>", <<"<U+2CD8>">>>>, <<"<U+2CDB>", <<"<U+2CDA>">>>>,
     <<"<U+2CDD>", <<"<U+2CDC>">>>>, <<"<U+2CDF>", <<"<U+2CDE>">>>>,
     <<"<U+2CE1>", <<"<U+2CE0>">>>>, <<"<U+2CE3>", <<"<U+2CE2>">>>>,
     <<"<U+2CEC>", <<"<U+2CEB>">>>>, <<"<U+2CEE>", <<"<U+2CED>">>>>,
     <<"<U+2CF3>", <<"<U+2CF2>">>>>, <<"<U+2D00>", <<"<U+10A0>">>>>,
     <<"<U+2D01>", <<"<U+10A1>">>>>, <<"<U+2D02>", <<"<U+10A2>">>>>,
     <<"<U+2D03>", <<"<U+10A3>">>>>, <<"<U+2D04>", <<"<U+10A4>">>>>,
     <<"<U+2D05>", <<"<U+10A5>">>>>, <<"<U+2D06>", <<"<U+10A6>">>>>,
     <<"<U+2D07>", <<"<U+10A7>">>>>, <<"<U+2D08>", <<"<U+10A8>">>>>,
     <<"<U+2D09>", <<"<U+10A9>">>>>, <<"<U+2D0A>", <<"<U+10AA>">>>>,
     <<"<U+2D0B>", <<"<U+10AB>">>>>, <<"<U+2D0C>", <<"<U+10AC>">>>>,
     <<"<U+2D0D>", <<"<U+10AD>">>>>, <<"<U+2D0E>", <<"<U+10AE>">>>>,
     <<"<U+2D0F>", <<"<U+10AF>">>>>, <<"<U+2D10>", <<"<U+10B0>">>>>,
     <<"<U+2D11>", <<"<U+10B1>">>>>, <<"<U+2D12>", <<"<U+10B2>">>>>,
     <<"<U+2D13>", <<"<U+10B3>">>>>, <<"<U+2D14>", <<"<U+10B4>">>>>,
     <<"<U+2D15>", <<"<U+10B5>">>>>, <<"<U+2D16>", <<"<U+10B6>">>>>,
     <<"<U+2D17>", <<"<U+10B7>">>>>, <<"<U+2D18>", <<"<U+10B8>">>>>,
     <<"<U+2D19>", <<"<U+10B9>">>>>, <<"<U+2D1A>", <<"<U+10BA>">>>>,
     <<"<U+2D1B>", <<"<U+10BB>">>>>, <<"<U+2D1C>", <<"<U+10BC>">>>>,
     <<"<U+2D1D>", <<"<U+10BD>">>>>, <<"<U+2D1E>", <<"<U+10BE>">>>>,
     <<"<U+2D1F>", <<"<U+10BF>">>>>, <<"<U+2D20>", <<"<U+10C0>">>>>,
     <<"<U+2D21>", <<"<U+10C1>">>>>, <<"<U+2D22>", <<"<U+10C2>">>>>,
     <<"<U+2D23>", <<"<U+10C3>">>>>, <<"<U+2D24>", <<"<U+10C4>">>>>,
     <<"<U+2D25>", <<"<U+10C5>">>>>, <<"<U+2D27>", <<"<U+10C7>">>>>,
     <<"<U+2D2D>", <<"<U+10CD>">>>>, <<"<U+A641>", <<"<U+A640>">>>>,
     <<"<U+A643>", <<"<U+A642>">>>>, <<"<U+A645>", <<"<U+A644>">>>>,
     <<"<U+A647>", <<"<U+A646>">>>>, <<"<U+A649>", <<"<U+A648>">>>>,
     <<"<U+A64B>", <<"<U+A64A>">>>>, <<"<U+A64D>", <<"<U+A64C>">>>>,
     <<"<U+A64F>", <<"<U+A64E>">>>>, <<"<U+A651>", <<"<U+A650>">>>>,
     <<"<U+A653>", <<"<U+A652>">>>>, <<"<U+A655>", <<"<U+A654>">>>>,
     <<"<U+A657>", <<"<U+A656>">>>>, <<"<U+A659>", <<"<U+A658>">>>>,
     <<"<U+A65B>", <<"<U+A65A>">>>>, <<"<U+A65D>", <<"<U+A65C>">>>>,
     <<"<U+A65F>", <<"<U+A65E>">>>>, <<"<U+A661>", <<"<U+A660>">>>>,
     <<"<U+A663>", <<"<U+A662>">>>>, <<"<U+A665>", <<"<U+A664>">>>>,
     <<"<U+A667>", <<"<U+A666>">>>>, <<"<U+A669>", <<"<U+A668>">>>>,
     <<"<U+A66B>", <<"<U+A66A>">>>>, <<"<U+A66D>", <<"<U+A66C>">>>>,
     <<"<U+A681>", <<"<U+A680>">>>>, <<"<U+A683>", <<"<U+A682>">>>>,
     <<"<U+A685>", <<"<U+A684>">>>>, <<"<U+A687>", <<"<U+A686>">>>>,
     <<"<U+A689>", <<"<U+A688>">>>>, <<"<U+A68B>", <<"<U+A68A>">>>>,
     <<"<U+A68D>", <<"<U+A68C>">>>>, <<"<U+A68F>", <<"<U+A68E>">>>>,
     <<"<U+A691>", <<"<U+A690>">>>>, <<"<U+A693>", <<"<U+A692>">>>>,
     <<"<U+A695>", <<"<U+A694>">>>>, <<"<U+A697>", <<"<U+A696>">>>>,
     <<"<U+A699>", <<"<U+A698>">>>>, <<"<U+A69B>", <<"<U+A69A>">>>>,
     <<"<U+A723>", <<"<U+A722>">>>>, <<"<U+A725>", <<"<U+A724>">>>>,
     <<"<U+A727>", <<"<U+A726>">>>>, <<"<U+A729>", <<"<U+A728>">>>>,
     <<"<U+A72B>", <<"<U+A72A>">>>>, <<"<U+A72D>", <<"<U+A72C>">>>>,
     <<"<U+A72F>", <<"<U+A72E>">>>>, <<"<U+A733>", <<"<U+A732>">>>>,
     <<"<U+A735>", <<"<U+A734>">>>>, <<"<U+A737>", <<"<U+A736>">>>>,
     <<"<U+A739>", <<"<U+A738>">>>>, <<"<U+A73B>", <<"<U+A73A>">>>>,
     <<"<U+A73D>", <<"<U+A73C>">>>>, <<"<U+A73F>", <<"<U+A73E>">>>>,
     <<"<U+A741>", <<"<U+A740>">>>>, <<"<U+A743>", <<"<U+A742>">>>>,
     <<"<U+A745>", <<"<U+A744>">>>>, <<"<U+A747>", <<"<U+A746>">>>>,
     <<"<U+A749>", <<"<U+A748>">>>>, <<"<U+A74B>", <<"<U+A74A>">>>>,
     <<"<U+A74D>", <<"<U+A74C>">>>>, <<"<U+A74F>", <<"<U+A74E>">>>>,
     <<"<U+A751>", <<"<U+A750>">>>>, <<"<U+A753>", <<"<U+A752>">>>>,
     <<"<U+A755>", <<"<U+A754>">>>>, <<"<U+A757>", <<"<U+A756>">>>>,
     <<"<U+A759>", <<"<U+A758>">>>>, <<"<U+A75B>", <<"<U+A75A>">>>>,
     <<"<U+A75D>", <<"<U+A75C>">>>>, <<"<U+A75F>", <<"<U+A75E>">>>>,
     <<"<U+A761>", <<"<U+A760>">>>>, <<"<U+A763>", <<"<U+A762>">>>>,
     <<"<U+A765>", <<"<U+A764>">>>>, <<"<U+A767>", <<"<U+A766>">>>>,
     <<"<U+A769>", <<"<U+A768>">>>>, <<"<U+A76B>", <<"<U+A76A>">>>>,
     <<"<U+A76D>", <<"<U+A76C>">>>>, <<"<U+A76F>", <<"<U+A76E>">>>>,
     <<"<U+A77A>", <<"<U+A779>">>>>, <<"<U+A77C>", <<"<U+A77B>">>>>,
     <<"<U+A77F>", <<"<U+A77E>">>>>, <<"<U+A781>", <<"<U+A780>">>>>,
     <<"<U+A783>", <<"<U+A782>">>>>, <<"<U+A785>", <<"<U+A784>">>>>,
     <<"<U+A787>", <<"<U+A786>">>>>, <<"<U+A78C>", <<"<U+A78B>">>>>,
     <<"<U+A791>", <<"<U+A790>">>>>, <<"<U+A793>", <<"<U+A792>">>>>,
     <<"<U+A794>", <<"<U+A7C4>">>>>, <<"<U+A797>", <<"<U+A796>">>>>,
     <<"<U+A799>", <<"<U+A798>">>>>, <<"<U+A79B>", <<"<U+A79A>">>>>,
     <<"<U+A79D>", <<"<U+A79C>">>>>, <<"<U+A79F>", <<"<U+A79E>">>>>,
     <<"<U+A7A1>", <<"<U+A7A0>">>>>, <<"<U+A7A3>", <<"<U+A7A2>">>>>,
     <<"<U+A7A5>", <<"<U+A7A4>">>>>, <<"<U+A7A7>", <<"<U+A7A6>">>>>,
     <<"<U+A7A9>", <<"<U+A7A8>">>>>, <<"<U+A7B5>", <<"<U+A7B4>">>>>,
     <<"<U+A7B7>", <<"<U+A7B6>">>>>, <<"<U+A7B9>", <<"<U+A7B8>">>>>,
     <<"<U+A7BB>", <<"<U+A7BA>">>>>, <<"<U+A7BD>", <<"<U+A7BC>">>>>,
     <<"<U+A7BF>", <<"<U+A7BE>">>>>, <<"<U+A7C1>", <<"<U+A7C0>">>>>,
     <<"<U+A7C3>", <<"<U+A7C2>">>>>, <<"<U+A7C8>", <<"<U+A7C7>">>>>,
     <<"<U+A7CA>", <<"<U+A7C9>">>>>, <<"<U+A7D1>", <<"<U+A7D0>">>>>,
     <<"<U+A7D7>", <<"<U+A7D6>">>>>, <<"<U+A7D9>", <<"<U+A7D8>">>>>,
     <<"<U+A7F6>", <<"<U+A7F5>">>>>, <<"<U+AB53>", <<"<U+A7B3>">>>>,
     <<"<U+AB70>", <<"<U+13A0>">>>>, <<"<U+AB71>", <<"<U+13A1>">>>>,
     <<"<U+AB72>", <<"<U+13A2>">>>>, <<"<U+AB73>", <<"<U+13A3>">>>>,
     <<"<U+AB74>", <<"<U+13A4>">>>>, <<"<U+AB75>", <<"<U+13A5>">>>>,
     <<"<U+AB76>", <<"<U+13A6>">>>>, <<"<U+AB77>", <<"<U+13A7>">>>>,
     <<"<U+AB78>", <<"<U+13A8>">>>>, <<"<U+AB79>", <<"<U+13A9>">>>>,
     <<"<U+AB7A>", <<"<U+13AA>">>>>, <<"<U+AB7B>", <<"<U+13AB>">>>>,
     <<"<U+AB7C>", <<"<U+13AC>">>>>, <<"<U+AB7D>", <<"<U+13AD>">>>>,
     <<"<U+AB7E>", <<"<U+13AE>">>>>, <<"<U+AB7F>", <<"<U+13AF>">>>>,
     <<"<U+AB80>", <<"<U+13B0>">>>>, <<"<U+AB81>", <<"<U+13B1>">>>>,
     <<"<U+AB82>", <<"<U+13B2>">>>>, <<"<U+AB83>", <<"<U+13B3>">>>>,
     <<"<U+AB84>", <<"<U+13B4>">>>>, <<"<U+AB85>", <<"<U+13B5>">>>>,
     <<"<U+AB86>", <<"<U+13B6>">>>>, <<"<U+AB87>", <<"<U+13B7>">>>>,
     <<"<U+AB88>", <<"<U+13B8>">>>>, <<"<U+AB89>", <<"<U+13B9>">>>>,
     <<"<U+AB8A>", <<"<U+13BA>">>>>, <<"<U+AB8B>", <<"<U+13BB>">>>>,
     <<"<U+AB8C>", <<"<U+13BC>">>>>, <<"<U+AB8D>", <<"<U+13BD>">>>>,
     <<"<U+AB8E>", <<"<U+13BE>">>>>, <<"<U+AB8F>", <<"<U+13BF>">>>>,
     <<"<U+AB90>", <<"<U+13C0>">>>>, <<"<U+AB91>", <<"<U+13C1>">>>>,
     <<"<U+AB92>", <<"<U+13C2>">>>>, <<"<U+AB93>", <<"<U+13C3>">>>>,
     <<"<U+AB94>", <<"<U+13C4>">>>>, <<"<U+AB95>", <<"<U+13C5>">>>>,
     <<"<U+AB96>", <<"<U+13C6>">>>>, <<"<U+AB97>", <<"<U+13C7>">>>>,
     <<"<U+AB98>", <<"<U+13C8>">>>>, <<"<U+AB99>", <<"<U+13C9>">>>>,
     <<"<U+AB9A>", <<"<U+13CA>">>>>, <<"<U+AB9B>", <<"<U+13CB>">>>>,
     <<"<U+AB9C>", <<"<U+13CC>">>>>, <<"<U+AB9D>", <<"<U+13CD>">>>>,
     <<"<U+AB9E>", <<"<U+13CE>">>>>, <<"<U+AB9F>", <<"<U+13CF>">>>>,
     <<"<U+ABA0>", <<"<U+13D0>">>>>, <<"<U+ABA1>", <<"<U+13D1>">>>>,
     <<"<U+ABA2>", <<"<U+13D2>">>>>, <<"<U+ABA3>", <<"<U+13D3>">>>>,
     <<"<U+ABA4>", <<"<U+13D4>">>>>, <<"<U+ABA5>", <<"<U+13D5>">>>>,
     <<"<U+ABA6>", <<"<U+13D6>">>>>, <<"<U+ABA7>", <<"<U+13D7>">>>>,
     <<"<U+ABA8>", <<"<U+13D8>">>>>, <<"<U+ABA9>", <<"<U+13D9>">>>>,
     <<"<U+ABAA>", <<"<U+13DA>">>>>, <<"<U+ABAB>", <<"<U+13DB>">>>>,
     <<"<U+ABAC>", <<"<U+13DC>">>>>, <<"<U+ABAD>", <<"<U+13DD>">>>>,
     <<"<U+ABAE>", <<"<U+13DE>">>>>, <<"<U+ABAF>", <<"<U+13DF>">>>>,
     <<"<U+ABB0>", <<"<U+13E0>">>>>, <<"<U+ABB1>", <<"<U+13E1>">>>>,
     <<"<U+ABB2>", <<"<U+13E2>">>>>, <<"<U+ABB3>", <<"<U+13E3>">>>>,
     <<"<U+ABB4>", <<"<U+13E4>">>>>, <<"<U+ABB5>", <<"<U+13E5>">>>>,
     <<"<U+ABB6>", <<"<U+13E6>">>>>, <<"<U+ABB7>", <<"<U+13E7>">>>>,
     <<"<U+ABB8>", <<"<U+13E8>">>>>, <<"<U+ABB9>", <<"<U+13E9>">>>>,
     <<"<U+ABBA>", <<"<U+13EA>">>>>, <<"<U+ABBB>", <<"<U+13EB>">>>>,
     <<"<U+ABBC>", <<"<U+13EC>">>>>, <<"<U+ABBD>", <<"<U+13ED>">>>>,
     <<"<U+ABBE>", <<"<U+13EE>">>>>, <<"<U+ABBF>", <<"<U+13EF>">>>>,
     <<"<U+FB00>", <<"F", "F">>>>, <<"<U+FB01>", <<"F", "I">>>>,
     <<"<U+FB02>", <<"F", "L">>>>, <<"<U+FB03>", <<"F", "F", "I">>>>,
     <<"<U+FB04>", <<"F", "F", "L">>>>, <<"<U+FB05>", <<"S", "T">>>>,
     <<"<U+FB06>", <<"S", "T">>>>,
     <<"<U+FB13>", <<"<U+0544>", "<U+0546>">>>>,
     <<"<U+FB14>", <<"<U+0544>", "<U+0535>">>>>,
     <<"<U+FB15>", <<"<U+0544>", "<U+053B>">>>>,
     <<"<U+FB16>", <<"<U+054E>", "<U+0546>">>>>,
     <<"<U+FB17>", <<"<U+0544>", "<U+053D>">>>>,
     <<"<U+FF41>", <<"<U+FF21>">>>>, <<"<U+FF42>", <<"<U+FF22>">>>>,
     <<"<U+FF43>", <<"<U+FF23>">>>>, <<"<U+FF44>", <<"<U+FF24>">>>>,
     <<"<U+FF45>", <<"<U+FF25>">>>>, <<"<U+FF46>", <<"<U+FF26>">>>>,
     <<"<U+FF47>", <<"<U+FF27>">>>>, <<"<U+FF48>", <<"<U+FF28>">>>>,
     <<"<U+FF49>", <<"<U+FF29>">>>>, <<"<U+FF4A>", <<"<U+FF2A>">>>>,
     <<"<U+FF4B>", <<"<U+FF2B>">>>>, <<"<U+FF4C>", <<"<U+FF2C>">>>>,
     <<"<U+FF4D>", <<"<U+FF2D>">>>>, <<"<U+FF4E>", <<"<U+FF2E>">>>>,
     <<"<U+FF4F>", <<"<U+FF2F>">>>>, <<"<U+FF50>", <<"<U+FF30>">>>>,
     <<"<U+FF51>", <<"<U+FF31>">>>>, <<"<U+FF52>", <<"<U+FF32>">>>>,
     <<"<U+FF53>", <<"<U+FF33>">>>>, <<"<U+FF54>", <<"<U+FF34>">>>>,
     <<"<U+FF55>", <<"<U+FF35>">>>>, <<"<U+FF56>", <<"<U+FF36>">>>>,
     <<"<U+FF57>", <<"<U+FF37>">>>>, <<"<U+FF58>", <<"<U+FF38>">>>>,
     <<"<U+FF59>", <<"<U+FF39>">>>>, <<"<U+FF5A>", <<"<U+FF3A>">>>>,
     <<"<U+10428>", <<"<U+10400>">>>>, <<"<U+10429>", <<"<U+10401>">>>>,
     <<"<U+1042A>", <<"<U+10402>">>>>, <<"<U+1042B>", <<"<U+10403>">>>>,
     <<"<U+1042C>", <<"<U+10404>">>>>, <<"<U+1042D>", <<"<U+10405>">>>>,
     <<"<U+1042E>", <<"<U+10406>">>>>, <<"<U+1042F>", <<"<U+10407>">>>>,
     <<"<U+10430>", <<"<U+10408>">>>>, <<"<U+10431>", <<"<U+10409>">>>>,
     <<"<U+10432>", <<"<U+1040A>">>>>, <<"<U+10433>", <<"<U+1040B>">>>>,
     <<"<U+10434>", <<"<U+1040C>">>>>, <<"<U+10435>", <<"<U+1040D>">>>>,
     <<"<U+10436>", <<"<U+1040E>">>>>, <<"<U+10437>", <<"<U+1040F>">>>>,
     <<"<U+10438>", <<"<U+10410>">>>>, <<"<U+10439>", <<"<U+10411>">>>>,
     <<"<U+1043A>", <<"<U+10412>">>>>, <<"<U+1043B>", <<"<U+10413>">>>>,
     <<"<U+1043C>", <<"<U+10414>">>>>, <<"<U+1043D>", <<"<U+10415>">>>>,
     <<"<U+1043E>", <<"<U+10416>">>>>, <<"<U+1043F>", <<"<U+10417>">>>>,
     <<"<U+10440>", <<"<U+10418>">>>>, <<"<U+10441>", <<"<U+10419>">>>>,
     <<"<U+10442>", <<"<U+1041A>">>>>, <<"<U+10443>", <<"<U+1041B>">>>>,
     <<"<U+10444>", <<"<U+1041C>">>>>, <<"<U+10445>", <<"<U+1041D>">>>>,
     <<"<U+10446>", <<"<U+1041E>">>>>, <<"<U+10447>", <<"<U+1041F>">>>>,
     <<"<U+10448>", <<"<U+10420>">>>>, <<"<U+10449>", <<"<U+10421>">>>>,
     <<"<U+1044A>", <<"<U+10422>">>>>, <<"<U+1044B>", <<"<U+10423>">>>>,
     <<"<U+1044C>", <<"<U+10424>">>>>, <<"<U+1044D>", <<"<U+10425>">>>>,
     <<"<U+1044E>", <<"<U+10426>">>>>, <<"<U+1044F>", <<"<U+10427>">>>>,
     <<"<U+104D8>", <<"<U+104B0>">>>>, <<"<U+104D9>", <<"<U+104B1>">>>>,
     <<"<U+104DA>", <<"<U+104B2>">>>>, <<"<U+104DB>", <<"<U+104B3>">>>>,
     <<"<U+104DC>", <<"<U+104B4>">>>>, <<"<U+104DD>", <<"<U+104B5>">>>>,
     <<"<U+104DE>", <<"<U+104B6>">>>>, <<"<U+104DF>", <<"<U+104B7>">>>>,
     <<"<U+104E0>", <<"<U+104B8>">>>>, <<"<U+104E1>", <<"<U+104B9>">>>>,
     <<"<U+104E2>", <<"<U+104BA>">>>>, <<"<U+104E3>", <<"<U+104BB>">>>>,
     <<"<U+104E4>", <<"<U+104BC>">>>>, <<"<U+104E5>", <<"<U+104BD>">>>>,
     <<"<U+104E6>", <<"<U+104BE>">>>>, <<"<U+104E7>", <<"<U+104BF>">>>>,
     <<"<U+104E8>", <<"<U+104C0>">>>>, <<"<U+104E9>", <<"<U+104C1>">>>>,
     <<"<U+104EA>", <<"<U+104C2>">>>>, <<"<U+104EB>", <<"<U+104C3>">>>>,
     <<"<U+104EC>", <<"<U+104C4>">>>>, <<"<U+104ED>", <<"<U+104C5>">>>>,
     <<"<U+104EE>", <<"<U+104C6>">>>>, <<"<U+104EF>", <<"<U+104C7>">>>>,
     <<"<U+104F0>", <<"<U+104C8>">>>>, <<"<U+104F1>", <<"<U+104C9>">>>>,
     <<"<U+104F2>", <<"<U+104CA>">>>>, <<"<U+104F3>", <<"<U+104CB>">>>>,
     <<"<U+104F4>", <<"<U+104CC>">>>>, <<"<U+104F5>", <<"<U+104CD>">>>>,
     <<"<U+104F6>", <<"<U+104CE>">>>>, <<"<U+104F7>", <<"<U+104CF>">>>>,
     <<"<U+104F8>", <<"<U+104D0>">>>>, <<"<U+104F9>", <<"<U+104D1>">>>>,
     <<"<U+104FA>", <<"<U+104D2>">>>>, <<"<U+104FB>", <<"<U+104D3>">>>>,
     <<"<U+10597>", <<"<U+10570>">>>>, <<"<U+10598>", <<"<U+10571>">>>>,
     <<"<U+10599>", <<"<U+10572>">>>>, <<"<U+1059A>", <<"<U+10573>">>>>,
     <<"<U+1059B>", <<"<U+10574>">>>>, <<"<U+1059C>", <<"<U+10575>">>>>,
     <<"<U+1059D>", <<"<U+10576>">>>>, <<"<U+1059E>", <<"<U+10577>">>>>,
     <<"<U+1059F>", <<"<U+10578>">>>>, <<"<U+105A0>", <<"<U+10579>">>>>,
     <<"<U+105A1>", <<"<U+1057A>">>>>, <<"<U+105A3>", <<"<U+1057C>">>>>,
     <<"<U+105A4>", <<"<U+1057D>">>>>, <<"<U+105A5>", <<"<U+1057E>">>>>,
     <<"<U+105A6>", <<"<U+1057F>">>>>, <<"<U+105A7>", <<"<U+10580>">>>>,
     <<"<U+105A8>", <<"<U+10581>">>>>, <<"<U+105A9>", <<"<U+10582>">>>>,
     <<"<U+105AA>", <<"<U+10583>">>>>, <<"<U+105AB>", <<"<U+10584>">>>>,
     <<"<U+105AC>", <<"<U+10585>">>>>, <<"<U+105AD>", <<"<U+10586>">>>>,
     <<"<U+105AE>", <<"<U+10587>">>>>, <<"<U+105AF>", <<"<U+10588>">>>>,
     <<"<U+105B0>", <<"<U+10589>">>>>, <<"<U+105B1>", <<"<U+1058A>">>>>,
     <<"<U+105B3>", <<"<U+1058C>">>>>, <<"<U+105B4>", <<"<U+1058D>">>>>,
     <<"<U+105B5>", <<"<U+1058E>">>>>, <<"<U+105B6>", <<"<U+1058F>">>>>,
     <<"<U+105B7>", <<"<U+10590>">>>>, <<"<U+105B8>", <<"<U+10591>">>>>,
     <<"<U+105B9>", <<"<U+10592>">>>>, <<"<U+105BB>", <<"<U+10594>">>>>,
     <<"<U+105BC>", <<"<U+10595>">>>>, <<"<U+10CC0>", <<"<U+10C80>">>>>,
     <<"<U+10CC1>", <<"<U+10C81>">>>>, <<"<U+10CC2>", <<"<U+10C82>">>>>,
     <<"<U+10CC3>", <<"<U+10C83>">>>>, <<"<U+10CC4>", <<"<U+10C84>">>>>,
     <<"<U+10CC5>", <<"<U+10C85>">>>>, <<"<U+10CC6>", <<"<U+10C86>">>>>,
     <<"<U+10CC7>", <<"<U+10C87>">>>>, <<"<U+10CC8>", <<"<U+10C88>">>>>,
     <<"<U+10CC9>", <<"<U+10C89>">>>>, <<"<U+10CCA>", <<"<U+10C8A>">>>>,
     <<"<U+10CCB>", <<"<U+10C8B>">>>>, <<"<U+10CCC>", <<"<U+10C8C>">>>>,
     <<"<U+10CCD>", <<"<U+10C8D>">>>>, <<"<U+10CCE>", <<"<U+10C8E>">>>>,
     <<"<U+10CCF>", <<"<U+10C8F>">>>>, <<"<U+10CD0>", <<"<U+10C90>">>>>,
     <<"<U+10CD1>", <<"<U+10C91>">>>>, <<"<U+10CD2>", <<"<U+10C92>">>>>,
     <<"<U+10CD3>", <<"<U+10C93>">>>>, <<"<U+10CD4>", <<"<U+10C94>">>>>,
     <<"<U+10CD5>", <<"<U+10C95>">>>>, <<"<U+10CD6>", <<"<U+10C96>">>>>,
     <<"<U+10CD7>", <<"<U+10C97>">>>>, <<"<U+10CD8>", <<"<U+10C98>">>>>,
     <<"<U+10CD9>", <<"<U+10C99>">>>>, <<"<U+10CDA>", <<"<U+10C9A>">>>>,
     <<"<U+10CDB>", <<"<U+10C9B>">>>>, <<"<U+10CDC>", <<"<U+10C9C>">>>>,
     <<"<U+10CDD>", <<"<U+10C9D>">>>>, <<"<U+10CDE>", <<"<U+10C9E>">>>>,
     <<"<U+10CDF>", <<"<U+10C9F>">>>>, <<"<U+10CE0>", <<"<U+10CA0>">>>>,
     <<"<U+10CE1>", <<"<U+10CA1>">>>>, <<"<U+10CE2>", <<"<U+10CA2>">>>>,
     <<"<U+10CE3>", <<"<U+10CA3>">>>>, <<"<U+10CE4>", <<"<U+10CA4>">>>>,
     <<"<U+10CE5>", <<"<U+10CA5>">>>>, <<"<U+10CE6>", <<"<U+10CA6>">>>>,
     <<"<U+10CE7>", <<"<U+10CA7>">>>>, <<"<U+10CE8>", <<"<U+10CA8>">>>>,
     <<"<U+10CE9>", <<"<U+10CA9>">>>>, <<"<U+10CEA>", <<"<U+10CAA>">>>>,
     <<"<U+10CEB>", <<"<U+10CAB>">>>>, <<"<U+10CEC>", <<"<U+10CAC>">>>>,
     <<"<U+10CED>", <<"<U+10CAD>">>>>, <<"<U+10CEE>", <<"<U+10CAE>">>>>,
     <<"<U+10CEF>", <<"<U+10CAF>">>>>, <<"<U+10CF0>", <<"<U+10CB0>">>>>,
     <<"<U+10CF1>", <<"<U+10CB1>">>>>, <<"<U+10CF2>", <<"<U+10CB2>">>>>,
     <<"<U+118C0>", <<"<U+118A0>">>>>, <<"<U+118C1>", <<"<U+118A1>">>>>,
     <<"<U+118C2>", <<"<U+118A2>">>>>, <<"<U+118C3>", <<"<U+118A3>">>>>,
     <<"<U+118C4>", <<"<U+118A4>">>>>, <<"<U+118C5>", <<"<U+118A5>">>>>,
     <<"<U+118C6>", <<"<U+118A6>">>>>, <<"<U+118C7>", <<"<U+118A7>">>>>,
     <<"<U+118C8>", <<"<U+118A8>">>>>, <<"<U+118C9>", <<"<U+118A9>">>>>,
     <<"<U+118CA>", <<"<U+118AA>">>>>, <<"<U+118CB>", <<"<U+118AB>">>>>,
     <<"<U+118CC>", <<"<U+118AC>">>>>, <<"<U+118CD>", <<"<U+118AD>">>>>,
     <<"<U+118CE>", <<"<U+118AE>">>>>, <<"<U+118CF>", <<"<U+118AF>">>>>,
     <<"<U+118D0>", <<"<U+118B0>">>>>, <<"<U+118D1>", <<"<U+118B1>">>>>,
     <<"<U+118D2>", <<"<U+118B2>">>>>, <<"<U+118D3>", <<"<U+118B3>">>>>,
     <<"<U+118D4>", <<"<U+118B4>">>>>, <<"<U+118D5>", <<"<U+118B5>">>>>,
     <<"<U+118D6>", <<"<U+118B6>">>>>, <<"<U+118D7>", <<"<U+118B7>">>>>,
     <<"<U+118D8>", <<"<U+118B8>">>>>, <<"<U+118D9>", <<"<U+118B9>">>>>,
     <<"<U+118DA>", <<"<U+118BA>">>>>, <<"<U+118DB>", <<"<U+118BB>">>>>,
     <<"<U+118DC>", <<"<U+118BC>">>>>, <<"<U+118DD>", <<"<U+118BD>">>>>,
     <<"<U+118DE>", <<"<U+118BE>">>>>, <<"<U+118DF>", <<"<U+118BF>">>>>,
     <<"<U+16E60>", <<"<U+16E40>">>>>, <<"<U+16E61>", <<"<U+16E41>">>>>,
     <<"<U+16E62>", <<"<U+16E42>">>>>, <<"<U+16E63>", <<"<U+16E43>">>>>,
     <<"<U+16E64>", <<"<U+16E44>">>>>, <<"<U+16E65>", <<"<U+16E45>">>>>,
     <<"<U+16E66>", <<"<U+16E46>">>>>, <<"<U+16E67>", <<"<U+16E47>">>>>,
     <<"<U+16E68>", <<"<U+16E48>">>>>, <<"<U+16E69>", <<"<U+16E49>">>>>,
     <<"<U+16E6A>", <<"<U+16E4A>">>>>, <<"<U+16E6B>", <<"<U+16E4B>">>>>,
     <<"<U+16E6C>", <<"<U+16E4C>">>>>, <<"<U+16E6D>", <<"<U+16E4D>">>>>,
     <<"<U+16E6E>", <<"<U+16E4E>">>>>, <<"<U+16E6F>", <<"<U+16E4F>">>>>,
     <<"<U+16E70>", <<"<U+16E50>">>>>, <<"<U+16E71>", <<"<U+16E51>">>>>,
     <<"<U+16E72>", <<"<U+16E52>">>>>, <<"<U+16E73>", <<"<U+16E53>">>>>,
     <<"<U+16E74>", <<"<U+16E54>">>>>, <<"<U+16E75>", <<"<U+16E55>">>>>,
     <<"<U+16E76>", <<"<U+16E56>">>>>, <<"<U+16E77>", <<"<U+16E57>">>>>,
     <<"<U+16E78>", <<"<U+16E58>">>>>, <<"<U+16E79>", <<"<U+16E59>">>>>,
     <<"<U+16E7A>", <<"<U+16E5A>">>>>, <<"<U+16E7B>", <<"<U+16E5B>">>>>,
     <<"<U+16E7C>", <<"<U+16E5C>">>>>, <<"<U+16E7D>", <<"<U+16E5D>">>>>,
     <<"<U+16E7E>", <<"<U+16E5E>">>>>, <<"<U+16E7F>", <<"<U+16E5F>">>>>,
     <<"<U+1E922>", <<"<U+1E900>">>>>, <<"<U+1E923>", <<"<U+1E901>">>>>,
     <<"<U+1E924>", <<"<U+1E902>">>>>, <<"<U+1E925>", <<"<U+1E903>">>>>,
     <<"<U+1E926>", <<"<U+1E904>">>>>, <<"<U+1E927>", <<"<U+1E905>">>>>,
     <<"<U+1E928>", <<"<U+1E906>">>>>, <<"<U+1E929>", <<"<U+1E907>">>>>,
     <<"<U+1E92A>", <<"<U+1E908>">>>>, <<"<U+1E92B>", <<"<U+1E909>">>>>,
     <<"<U+1E92C>", <<"<U+1E90A>">>>>, <<"<U+1E92D>", <<"<U+1E90B>">>>>,
     <<"<U+1E92E>", <<"<U+1E90C>">>>>, <<"<U+1E92F>", <<"<U+1E90D>">>>>,
     <<"<U+1E930>", <<"<U+1E90E>">>>>, <<"<U+1E931>", <<"<U+1E90F>">>>>,
     <<"<U+1E932>", <<"<U+1E910>">>>>, <<"<U+1E933>", <<"<U+1E911>">>>>,
     <<"<U+1E934>", <<"<U+1E912>">>>>, <<"<U+1E935>", <<"<U+1E913>">>>>,
     <<"<U+1E936>", <<"<U+1E914>">>>>, <<"<U+1E937>", <<"<U+1E915>">>>>,
     <<"<U+1E938>", <<"<U+1E916>">>>>, <<"<U+1E939>", <<"<U+1E917>">>>>,
     <<"<U+1E93A>", <<"<U+1E918>">>>>, <<"<U+1E93B>", <<"<U+1E919>">>>>,
     <<"<U+1E93C>", <<"<U+1E91A>">>>>, <<"<U+1E93D>", <<"<U+1E91B>">>>>,
     <<"<U+1E93E>", <<"<U+1E91C>">>>>, <<"<U+1E93F>", <<"<U+1E91D>">>>>,
     <<"<U+1E940>", <<"<U+1E91E>">>>>, <<"<U+1E941>", <<"<U+1E91F>">>>>,
     <<"<U+1E942>", <<"<U+1E920>">>>>, <<"<U+1E943>", <<"<U+1E921>">>>>}

\* the decimal digits int() accepts, each script from its zero to its nine
DecimalDigits ==
    <<<<"0", "1", "2", "3", "4", "5", "6", "7", "8", "9">>,
      <<"<U+0660>", "<U+0661>", "<U+0662>", "<U+0663>", "<U+0664>",
        "<U+0665>", "<U+0666>", "<U+0667>", "<U+0668>", "<U+0669>">>,
      <<"<U+06F0>", "<U+06F1>", "<U+06F2>", "<U+06F3>", "<U+06F4>",
        "<U+06F5>", "<U+06F6>", "<U+06F7>", "<U+06F8>", "<U+06F9>">>,
      <<"<U+07C0>", "<U+07C1>", "<U+07C2>", "<U+07C3>", "<U+07C4>",
        "<U+07C5>", "<U+07C6>", "<U+07C7>", "<U+07C8>", "<U+07C9>">>,
      <<"<U+0966>", "<U+0967>", "<U+0968>", "<U+0969>", "<U+096A>",
        "<U+096B>", "<U+096C>", "<U+096D>", "<U+096E>", "<U+096F>">>,
      <<"<U+09E6>", "<U+09E7>", "<U+09E8>", "<U+09E9>", "<U+09EA>",
        "<U+09EB>", "<U+09EC>", "<U+09ED>", "<U+09EE>", "<U+09EF>">>,
      <<"<U+0A66>", "<U+0A67>", "<U+0A68>", "<U+0A69>", "<U+0A6A>",
        "<U+0A6B>", "<U+0A6C>", "<U+0A6D>", "<U+0A6E>", "<U+0A6F>">>,
      <<"<U+0AE6>", "<U+0AE7>", "<U+0AE8>", "<U+0AE9>", "<U+0AEA>",
        "<U+0AEB>", "<U+0AEC>", "<U+0AED>", "<U+0AEE>", "<U+0AEF>">>,
      <<"<U+0B66>", "<U+0B67>", "<U+0B68>", "<U+0B69>", "<U+0B6A>",
        "<U+0B6B>", "<U+0B6C>", "<U+0B6D>", "<U+0B6E>", "<U+0B6F>">>,
      <<"<U+0BE6>", "<U+0BE7>", "<U+0BE8>", "<U+0BE9>", "<U+0BEA>",
        "<U+0BEB>", "<U+0BEC>", "<U+0BED>", "<U+0BEE>", "<U+0BEF>">>,
      <<"<U+0C66>", "<U+0C67>", "<U+0C68>", "<U+0C69>", "<U+0C6A>",
        "<U+0C6B>", "<U+0C6C>", "<U+0C6D>", "<U+0C6E>", "<U+0C6F>">>,
      <<"<U+0CE6>", "<U+0CE7>", "<U+0CE8>", "<U+0CE9>", "<U+0CEA>",
        "<U+0CEB>", "<U+0CEC>", "<U+0CED>", "<U+0CEE>", "<U+0CEF>">>,
      <<"<U+0D66>", "<U+0D67>", "<U+0D68>", "<U+0D69>", "<U+0D6A>",
        "<U+0D6B>", "<U+0D6C>", "<U+0D6D>", "<U+0D6E>", "<U+0D6F>">>,
      <<"<U+0DE6>", "<U+0DE7>", "<U+0DE8>", "<U+0DE9>", "<U+0DEA>",
        "<U+0DEB>", "<U+0DEC>", "<U+0DED>", "<U+0DEE>", "<U+0DEF>">>,
      <<"<U+0E50>", "<U+0E51>", "<U+0E52>", "<U+0E53>", "<U+0E54>",
        "<U+0E55>", "<U+0E56>", "<U+0E57>", "<U+0E58>", "<U+0E59>">>,
      <<"<U+0ED0>", "<U+0ED1>", "<U+0ED2>", "<U+0ED3>", "<U+0ED4>",
        "<U+0ED5>", "<U+0ED6>", "<U+0ED7>", "<U+0ED8>", "<U+0ED9>">>,
      <<"<U+0F20>", "<U+0F21>", "<U+0F22>", "<U+0F23>", "<U+0F24>",
        "<U+0F25>", "<U+0F26>", "<U+0F27>", "<U+0F28>", "<U+0F29>">>,
      <<"<U+1040>", "<U+1041>", "<U+1042>", "<U+1043>", "<U+1044>",
        "<U+1045>", "<U+1046>", "<U+1047>", "<U+1048>", "<U+1049>">>,
      <<"<U+1090>", "<U+1091>", "<U+1092>", "<U+1093>", "<U+1094>",
        "<U+1095>", "<U+1096>", "<U+1097>", "<U+1098>", "<U+1099>">>,
      <<"<U+17E0>", "<U+17E1>", "<U+17E2>", "<U+17E3>", "<U+17E4>",
        "<U+17E5>", "<U+17E6>", "<U+17E7>", "<U+17E8>", "<U+17E9>">>,
      <<"<U+1810>", "<U+1811>", "<U+1812>", "<U+1813>", "<U+1814>",
        "<U+1815>", "<U+1816>", "<U+1817>", "<U+1818>", "<U+1819>">>,
      <<"<U+1946>", "<U+1947>", "<U+1948>", "<U+1949>", "<U+194A>",
        "<U+194B>", "<U+194C>", "<U+194D>", "<U+194E>", "<U+194F>">>,
      <<"<U+19D0>", "<U+19D1>", "<U+19D2>", "<U+19D3>", "<U+19D4>",
        "<U+19D5>", "<U+19D6>", "<U+19D7>", "<U+19D8>", "<U+19D9>">>,
      <<"<U+1A80>", "<U+1A81>", "<U+1A82>", "<U+1A83>", "<U+1A84>",
        "<U+1A85>", "<U+1A86>", "<U+1A87>", "<U+1A88>", "<U+1A89>">>,
      <<"<U+1A90>", "<U+1A91>", "<U+1A92>", "<U+1A93>", "<U+1A94>",
        "<U+1A95>", "<U+1A96>", "<U+1A97>", "<U+1A98>", "<U+1A99>">>,
      <<"<U+1B50>", "<U+1B51>", "<U+1B52>", "<U+1B53>", "<U+1B54>",
        "<U+1B55>", "<U+1B56>", "<U+1B57>", "<U+1B58>", "<U+1B59>">>,
      <<"<U+1BB0>", "<U+1BB1>", "<U+1BB2>", "<U+1BB3>", "<U+1BB4>",
        "<U+1BB5>", "<U+1BB6>", "<U+1BB7>", "<U+1BB8>", "<U+1BB9>">>,
      <<"<U+1C40>", "<U+1C41>", "<U+1C42>", "<U+1C43>", "<U+1C44>",
        "<U+1C45>", "<U+1C46>", "<U+1C47>", "<U+1C48>", "<U+1C49>">>,
      <<"<U+1C50>", "<U+1C51>", "<U+1C52>", "<U+1C53>", "<U+1C54>",
        "<U+1C55>", "<U+1C56>", "<U+1C57>", "<U+1C58>", "<U+1C59>">>,
      <<"<U+A620>", "<U+A621>", "<U+A622>", "<U+A623>", "<U+A624>",
        "<U+A625>", "<U+A626>", "<U+A627>", "<U+A628>", "<U+A629>">>,
      <<"<U+A8D0>", "<U+A8D1>", "<U+A8D2>", "<U+A8D3>", "<U+A8D4>",
        "<U+A8D5>", "<U+A8D6>", "<U+A8D7>", "<U+A8D8>", "<U+A8D9>">>,
      <<"<U+A900>", "<U+A901>", "<U+A902>", "<U+A903>", "<U+A904>",
        "<U+A905>", "<U+A906>", "<U+A907>", "<U+A908>", "<U+A909>">>,
      <<"<U+A9D0>", "<U+A9D1>", "<U+A9D2>", "<U+A9D3>", "<U+A9D4>",
        "<U+A9D5>", "<U+A9D6>", "<U+A9D7>", "<U+A9D8>", "<U+A9D9>">>,
      <<"<U+A9F0>", "<U+A9F1>", "<U+A9F2>", "<U+A9F3>", "<U+A9F4>",
        "<U+A9F5>", "<U+A9F6>", "<U+A9F7>", "<U+A9F8>", "<U+A9F9>">>,
      <<"<U+AA50>", "<U+AA51>", "<U+AA52>", "<U+AA53>", "<U+AA54>",
        "<U+AA55>", "<U+AA56>", "<U+AA57>", "<U+AA58>", "<U+AA59>">>,
      <<"<U+ABF0>", "<U+ABF1>", "<U+ABF2>", "<U+ABF3>", "<U+ABF4>",
        "<U+ABF5>", "<U+ABF6>", "<U+ABF7>", "<U+ABF8>", "<U+ABF9>">>,
      <<"<U+FF10>", "<U+FF11>", "<U+FF12>", "<U+FF13>", "<U+FF14>",
        "<U+FF15>", "<U+FF16>", "<U+FF17>", "<U+FF18>", "<U+FF19>">>,
      <<"<U+104A0>", "<U+104A1>", "<U+104A2>", "<U+104A3>", "<U+104A4>",
        "<U+104A5>", "<U+104A6>", "<U+104A7>", "<U+104A8>", "<U+104A9>">>,
      <<"<U+10D30>", "<U+10D31>", "<U+10D32>", "<U+10D33>", "<U+10D34>",
        "<U+10D35>", "<U+10D36>", "<U+10D37>", "<U+10D38>", "<U+10D39>">>,
      <<"<U+11066>", "<U+11067>", "<U+11068>", "<U+11069>", "<U+1106A>",
        "<U+1106B>", "<U+1106C>", "<U+1106D>", "<U+1106E>", "<U+1106F>">>,
      <<"<U+110F0>", "<U+110F1>", "<U+110F2>", "<U+110F3>", "<U+110F4>",
        "<U+110F5>", "<U+110F6>", "<U+110F7>", "<U+110F8>", "<U+110F9>">>,
      <<"<U+11136>", "<U+11137>", "<U+11138>", "<U+11139>", "<U+1113A>",
        "<U+1113B>", "<U+1113C>", "<U+1113D>", "<U+1113E>", "<U+1113F>">>,
      <<"<U+111D0>", "<U+111D1>", "<U+111D2>", "<U+111D3>", "<U+111D4>",
        "<U+111D5>", "<U+111D6>", "<U+111D7>", "<U+111D8>", "<U+111D9>">>,
      <<"<U+112F0>", "<U+112F1>", "<U+112F2>", "<U+112F3>", "<U+112F4>",
        "<U+112F5>", "<U+112F6>", "<U+112F7>", "<U+112F8>", "<U+112F9>">>,
      <<"<U+11450>", "<U+11451>", "<U+11452>", "<U+11453>", "<U+11454>",
        "<U+11455>", "<U+11456>", "<U+11457>", "<U+11458>", "<U+11459>">>,
      <<"<U+114D0>", "<U+114D1>", "<U+114D2>", "<U+114D3>", "<U+114D4>",
        "<U+114D5>", "<U+114D6>", "<U+114D7>", "<U+114D8>", "<U+114D9>">>,
      <<"<U+11650>", "<U+11651>", "<U+11652>", "<U+11653>", "<U+11654>",
        "<U+11655>", "<U+11656>", "<U+11657>", "<U+11658>", "<U+11659>">>,
      <<"<U+116C0>", "<U+116C1>", "<U+116C2>", "<U+116C3>", "<U+116C4>",
        "<U+116C5>", "<U+116C6>", "<U+116C7>", "<U+116C8>", "<U+116C9>">>,
      <<"<U+11730>", "<U+11731>", "<U+11732>", "<U+11733>", "<U+11734>",
        "<U+11735>", "<U+11736>", "<U+11737>", "<U+11738>", "<U+11739>">>,
      <<"<U+118E0>", "<U+118E1>", "<U+118E2>", "<U+118E3>", "<U+118E4>",
        "<U+118E5>", "<U+118E6>", "<U+118E7>", "<U+118E8>", "<U+118E9>">>,
      <<"<U+11950>", "<U+11951>", "<U+11952>", "<U+11953>", "<U+11954>",
        "<U+11955>", "<U+11956>", "<U+11957>", "<U+11958>", "<U+11959>">>,
      <<"<U+11C50>", "<U+11C51>", "<U+11C52>", "<U+11C53>", "<U+11C54>",
        "<U+11C55>", "<U+11C56>", "<U+11C57>", "<U+11C58>", "<U+11C59>">>,
      <<"<U+11D50>", "<U+11D51>", "<U+11D52>", "<U+11D53>", "<U+11D54>",
        "<U+11D55>", "<U+11D56>", "<U+11D57>", "<U+11D58>", "<U+11D59>">>,
      <<"<U+11DA0>", "<U+11DA1>", "<U+11DA2>", "<U+11DA3>", "<U+11DA4>",
        "<U+11DA5>", "<U+11DA6>", "<U+11DA7>", "<U+11DA8>", "<U+11DA9>">>,
      <<"<U+16A60>", "<U+16A61>", "<U+16A62>", "<U+16A63>", "<U+16A64>",
        "<U+16A65>", "<U+16A66>", "<U+16A67>", "<U+16A68>", "<U+16A69>">>,
      <<"<U+16AC0>", "<U+16AC1>", "<U+16AC2>", "<U+16AC3>", "<U+16AC4>",
        "<U+16AC5>", "<U+16AC6>", "<U+16AC7>", "<U+16AC8>", "<U+16AC9>">>,
      <<"<U+16B50>", "<U+16B51>", "<U+16B52>", "<U+16B53>", "<U+16B54>",
        "<U+16B55>", "<U+16B56>", "<U+16B57>", "<U+16B58>", "<U+16B59>">>,
      <<"<U+1D7CE>", "<U+1D7CF>", "<U+1D7D0>", "<U+1D7D1>", "<U+1D7D2>",
        "<U+1D7D3>", "<U+1D7D4>", "<U+1D7D5>", "<U+1D7D6>", "<U+1D7D7>">>,
      <<"<U+1D7D8>", "<U+1D7D9>", "<U+1D7DA>", "<U+1D7DB>", "<U+1D7DC>",
        "<U+1D7DD>", "<U+1D7DE>", "<U+1D7DF>", "<U+1D7E0>", "<U+1D7E1>">>,
      <<"<U+1D7E2>", "<U+1D7E3>", "<U+1D7E4>", "<U+1D7E5>", "<U+1D7E6>",
        "<U+1D7E7>", "<U+1D7E8>", "<U+1D7E9>", "<U+1D7EA>", "<U+1D7EB>">>,
      <<"<U+1D7EC>", "<U+1D7ED>", "<U+1D7EE>", "<U+1D7EF>", "<U+1D7F0>",
        "<U+1D7F1>", "<U+1D7F2>", "<U+1D7F3>", "<U+1D7F4>", "<U+1D7F5>">>,
      <<"<U+1D7F6>", "<U+1D7F7>", "<U+1D7F8>", "<U+1D7F9>", "<U+1D7FA>",
        "<U+1D7FB>", "<U+1D7FC>", "<U+1D7FD>", "<U+1D7FE>", "<U+1D7FF>">>,
      <<"<U+1E140>", "<U+1E141>", "<U+1E142>", "<U+1E143>", "<U+1E144>",
        "<U+1E145>", "<U+1E146>", "<U+1E147>", "<U+1E148>", "<U+1E149>">>,
      <<"<U+1E2F0>", "<U+1E2F1>", "<U+1E2F2>", "<U+1E2F3>", "<U+1E2F4>",
        "<U+1E2F5>", "<U+1E2F6>", "<U+1E2F7>", "<U+1E2F8>", "<U+1E2F9>">>,
      <<"<U+1E950>", "<U+1E951>", "<U+1E952>", "<U+1E953>", "<U+1E954>",
        "<U+1E955>", "<U+1E956>", "<U+1E957>", "<U+1E958>", "<U+1E959>">>,
      <<"<U+1FBF0>", "<U+1FBF1>", "<U+1FBF2>", "<U+1FBF3>", "<U+1FBF4>",
        "<U+1FBF5>", "<U+1FBF6>", "<U+1FBF7>", "<U+1FBF8>", "<U+1FBF9>">>>>

\* the code points repr() does not write as they are: those for which
\* str.isprintable() is false (control, format, separator, surrogate,
\* private use and unassigned code points), as ranges from a first to a last
NonPrintableRanges ==
    <<<<0, 31>>, <<127, 160>>, <<173, 173>>, <<888, 889>>, <<896, 899>>,
      <<907, 907>>, <<909, 909>>, <<930, 930>>, <<1328, 1328>>,
      <<1367, 1368>>, <<1419, 1420>>, <<1424, 1424>>, <<1480, 1487>>,
      <<1515, 1518>>, <<1525, 1541>>, <<1564, 1564>>, <<1757, 1757>>,
      <<1806, 1807>>, <<1867, 1868>>, <<1970, 1983>>, <<2043, 2044>>,
      <<2094, 2095>>, <<2111, 2111>>, <<2140, 2141>>, <<2143, 2143>>,
      <<2155, 2159>>, <<2191, 2199>>, <<2274, 2274>>, <<2436, 2436>>,
      <<2445, 2446>>, <<2449, 2450>>, <<2473, 2473>>, <<2481, 2481>>,
      <<2483, 2485>>, <<2490, 2491>>, <<2501, 2502>>, <<2505, 2506>>,
      <<2511, 2518>>, <<2520, 2523>>, <<2526, 2526>>, <<2532, 2533>>,
      <<2559, 2560>>, <<2564, 2564>>, <<2571, 2574>>, <<2577, 2578>>,
      <<2601, 2601>>, <<2609, 2609>>, <<2612, 2612>>, <<2615, 2615>>,
      <<2618, 2619>>, <<2621, 2621>>, <<2627, 2630>>, <<2633, 2634>>,
      <<2638, 2640>>, <<2642, 2648>>, <<2653, 2653>>, <<2655, 2661>>,
      <<2679, 2688>>, <<2692, 2692>>, <<2702, 2702>>, <<2706, 2706>>,
      <<2729, 2729>>, <<2737, 2737>>, <<2740, 2740>>, <<2746, 2747>>,
      <<2758, 2758>>, <<2762, 2762>>, <<2766, 2767>>, <<2769, 2783>>,
      <<2788, 2789>>, <<2802, 2808>>, <<2816, 2816>>, <<2820, 2820>>,
      <<2829, 2830>>, <<2833, 2834>>, <<2857, 2857>>, <<2865, 2865>>,
      <<2868, 2868>>, <<2874, 2875>>, <<2885, 2886>>, <<2889, 2890>>,
      <<2894, 2900>>, <<2904, 2907>>, <<2910, 2910>>, <<2916, 2917>>,
      <<2936, 2945>>, <<2948, 2948>>, <<2955, 2957>>, <<2961, 2961>>,
      <<2966, 2968>>, <<2971, 2971>>, <<2973, 2973>>, <<2976, 2978>>,
      <<2981, 2983>>, <<2987, 2989>>, <<3002, 3005>>, <<3011, 3013>>,
      <<3017, 3017>>, <<3022, 3023>>, <<3025, 3030>>, <<3032, 3045>>,
      <<3067, 3071>>, <<3085, 3085>>, <<3089, 3089>>, <<3113, 3113>>,
      <<3130, 3131>>, <<3141, 3141>>, <<3145, 3145>>, <<3150, 3156>>,
      <<3159, 3159>>, <<3163, 3164>>, <<3166, 3167>>, <<3172, 3173>>,
      <<3184, 3190>>, <<3213, 3213>>, <<3217, 3217>>, <<3241, 3241>>,
      <<3252, 3252>>, <<3258, 3259>>, <<3269, 3269>>, <<3273, 3273>>,
      <<3278, 3284>>, <<3287, 3292>>, <<3295, 3295>>, <<3300, 3301>>,
      <<3312, 3312>>, <<3315, 3327>>, <<3341, 3341>>, <<3345, 3345>>,
      <<3397, 3397>>, <<3401, 3401>>, <<3408, 3411>>, <<3428, 3429>>,
      <<3456, 3456>>, <<3460, 3460>>, <<3479, 3481>>, <<3506, 3506>>,
      <<3516, 3516>>, <<3518, 3519>>, <<3527, 3529>>, <<3531, 3534>>,
      <<3541, 3541>>, <<3543, 3543>>, <<3552, 3557>>, <<3568, 3569>>,
      <<3573, 3584>>, <<3643, 3646>>, <<3676, 3712>>, <<3715, 3715>>,
      <<3717, 3717>>, <<3723, 3723>>, <<3748, 3748>>, <<3750, 3750>>,
      <<3774, 3775>>, <<3781, 3781>>, <<3783, 3783>>, <<3790, 3791>>,
      <<3802, 3803>>, <<3808, 3839>>, <<3912, 3912>>, <<3949, 3952>>,
      <<3992, 3992>>, <<4029, 4029>>, <<4045, 4045>>, <<4059, 4095>>,
      <<4294, 4294>>, <<4296, 4300>>, <<4302, 4303>>, <<4681, 4681>>,
      <<4686, 4687>>, <<4695, 4695>>, <<4697, 4697>>, <<4702, 4703>>,
      <<4745, 4745>>, <<4750, 4751>>, <<4785, 4785>>, <<4790, 4791>>,
      <<4799, 4799>>, <<4801, 4801>>, <<4806, 4807>>, <<4823, 4823>>,
      <<4881, 4881>>, <<4886, 4887>>, <<4955, 4956>>, <<4989, 4991>>,
      <<5018, 5023>>, <<5110, 5111>>, <<5118, 5119>>, <<5760, 5760>>,
      <<5789, 5791>>, <<5881, 5887>>, <<5910, 5918>>, <<5943, 5951>>,
      <<5972, 5983>>, <<5997, 5997>>, <<6001, 6001>>, <<6004, 6015>>,
      <<6110, 6111>>, <<6122, 6127>>, <<6138, 6143>>, <<6158, 6158>>,
      <<6170, 6175>>, <<6265, 6271>>, <<6315, 6319>>, <<6390, 6399>>,
      <<6431, 6431>>, <<6444, 6447>>, <<6460, 6463>>, <<6465, 6467>>,
      <<6510, 6511>>, <<6517, 6527>>, <<6572, 6575>>, <<6602, 6607>>,
      <<6619, 6621>>, <<6684, 6685>>, <<6751, 6751>>, <<6781, 6782>>,
      <<6794, 6799>>, <<6810, 6815>>, <<6830, 6831>>, <<6863, 6911>>,
      <<6989, 6991>>, <<7039, 7039>>, <<7156, 7163>>, <<7224, 7226>>,
      <<7242, 7244>>, <<7305, 7311>>, <<7355, 7356>>, <<7368, 7375>>,
      <<7419, 7423>>, <<7958, 7959>>, <<7966, 7967>>, <<8006, 8007>>,
      <<8014, 8015>>, <<8024, 8024>>, <<8026, 8026>>, <<8028, 8028>>,
      <<8030, 8030>>, <<8062, 8063>>, <<8117, 8117>>, <<8133, 8133>>,
      <<8148, 8149>>, <<8156, 8156>>, <<8176, 8177>>, <<8181, 8181>>,
      <<8191, 8207>>, <<8232, 8239>>, <<8287, 8303>>, <<8306, 8307>>,
      <<8335, 8335>>, <<8349, 8351>>, <<8385, 8399>>, <<8433, 8447>>,
      <<8588, 8591>>, <<9255, 9279>>, <<9291, 9311>>, <<11124, 11125>>,
      <<11158, 11158>>, <<11508, 11512>>, <<11558, 11558>>, <<11560, 11564>>,
      <<11566, 11567>>, <<11624, 11630>>, <<11633, 11646>>, <<11671, 11679>>,
      <<11687, 11687>>, <<11695, 11695>>, <<11703, 11703>>, <<11711, 11711>>,
      <<11719, 11719>>, <<11727, 11727>>, <<11735, 11735>>, <<11743, 11743>>,
      <<11870, 11903>>, <<11930, 11930>>, <<12020, 12031>>, <<12246, 12271>>,
      <<12284, 12288>>, <<12352, 12352>>, <<12439, 12440>>, <<12544, 12548>>,
      <<12592, 12592>>, <<12687, 12687>>, <<12772, 12783>>, <<12831, 12831>>,
      <<42125, 42127>>, <<42183, 42191>>, <<42540, 42559>>, <<42744, 42751>>,
      <<42955, 42959>>, <<42962, 42962>>, <<42964, 42964>>, <<42970, 42993>>,
      <<43053, 43055>>, <<43066, 43071>>, <<43128, 43135>>, <<43206, 43213>>,
      <<43226, 43231>>, <<43348, 43358>>, <<43389, 43391>>, <<43470, 43470>>,
      <<43482, 43485>>, <<43519, 43519>>, <<43575, 43583>>, <<43598, 43599>>,
      <<43610, 43611>>, <<43715, 43738>>, <<43767, 43776>>, <<43783, 43784>>,
      <<43791, 43792>>, <<43799, 43807>>, <<43815, 43815>>, <<43823, 43823>>,
      <<43884, 43887>>, <<44014, 44015>>, <<44026, 44031>>, <<55204, 55215>>,
      <<55239, 55242>>, <<55292, 63743>>, <<64110, 64111>>, <<64218, 64255>>,
      <<64263, 64274>>, <<64280, 64284>>, <<64311, 64311>>, <<64317, 64317>>,
      <<64319, 64319>>, <<64322, 64322>>, <<64325, 64325>>, <<64451, 64466>>,
      <<64912, 64913>>, <<64968, 64974>>, <<64976, 65007>>, <<65050, 65055>>,
      <<65107, 65107>>, <<65127, 65127>>, <<65132, 65135>>, <<65141, 65141>>,
      <<65277, 65280>>, <<65471, 65473>>, <<65480, 65481>>, <<65488, 65489>>,
      <<65496, 65497>>, <<65501, 65503>>, <<65511, 65511>>, <<65519, 65531>>,
      <<65534, 65535>>, <<65548, 65548>>, <<65575, 65575>>, <<65595, 65595>>,
      <<65598, 65598>>, <<65614, 65615>>, <<65630, 65663>>, <<65787, 65791>>,
      <<65795, 65798>>, <<65844, 65846>>, <<65935, 65935>>, <<65949, 65951>>,
      <<65953, 65999>>, <<66046, 66175>>, <<66205, 66207>>, <<66257, 66271>>,
      <<66300, 66303>>, <<66340, 66348>>, <<66379, 66383>>, <<66427, 66431>>,
      <<66462, 66462>>, <<66500, 66503>>, <<66518, 66559>>, <<66718, 66719>>,
      <<66730, 66735>>, <<66772, 66775>>, <<66812, 66815>>, <<66856, 66863>>,
      <<66916, 66926>>, <<66939, 66939>>, <<66955, 66955>>, <<66963, 66963>>,
      <<66966, 66966>>, <<66978, 66978>>, <<66994, 66994>>, <<67002, 67002>>,
      <<67005, 67071>>, <<67383, 67391>>, <<67414, 67423>>, <<67432, 67455>>,
      <<67462, 67462>>, <<67505, 67505>>, <<67515, 67583>>, <<67590, 67591>>,
      <<67593, 67593>>, <<67638, 67638>>, <<67641, 67643>>, <<67645, 67646>>,
      <<67670, 67670>>, <<67743, 67750>>, <<67760, 67807>>, <<67827, 67827>>,
      <<67830, 67834>>, <<67868, 67870>>, <<67898, 67902>>, <<67904, 67967>>,
      <<68024, 68027>>, <<68048, 68049>>, <<68100, 68100>>, <<68103, 68107>>,
      <<68116, 68116>>, <<68120, 68120>>, <<68150, 68151>>, <<68155, 68158>>,
      <<68169, 68175>>, <<68185, 68191>>, <<68256, 68287>>, <<68327, 68330>>,
      <<68343, 68351>>, <<68406, 68408>>, <<68438, 68439>>, <<68467, 68471>>,
      <<68498, 68504>>, <<68509, 68520>>, <<68528, 68607>>, <<68681, 68735>>,
      <<68787, 68799>>, <<68851, 68857>>, <<68904, 68911>>, <<68922, 69215>>,
      <<69247, 69247>>, <<69290, 69290>>, <<69294, 69295>>, <<69298, 69375>>,
      <<69416, 69423>>, <<69466, 69487>>, <<69514, 69551>>, <<69580, 69599>>,
      <<69623, 69631>>, <<69710, 69713>>, <<69750, 69758>>, <<69821, 69821>>,
      <<69827, 69839>>, <<69865, 69871>>, <<69882, 69887>>, <<69941, 69941>>,
      <<69960, 69967>>, <<70007, 70015>>, <<70112, 70112>>, <<70133, 70143>>,
      <<70162, 70162>>, <<70207, 70271>>, <<70279, 70279>>, <<70281, 70281>>,
      <<70286, 70286>>, <<70302, 70302>>, <<70314, 70319>>, <<70379, 70383>>,
      <<70394, 70399>>, <<70404, 70404>>, <<70413, 70414>>, <<70417, 70418>>,
      <<70441, 70441>>, <<70449, 70449>>, <<70452, 70452>>, <<70458, 70458>>,
      <<70469, 70470>>, <<70473, 70474>>, <<70478, 70479>>, <<70481, 70486>>,
      <<70488, 70492>>, <<70500, 70501>>, <<70509, 70511>>, <<70517, 70655>>,
      <<70748, 70748>>, <<70754, 70783>>, <<70856, 70863>>, <<70874, 71039>>,
      <<71094, 71095>>, <<71134, 71167>>, <<71237, 71247>>, <<71258, 71263>>,
      <<71277, 71295>>, <<71354, 71359>>, <<71370, 71423>>, <<71451, 71452>>,
      <<71468, 71471>>, <<71495, 71679>>, <<71740, 71839>>, <<71923, 71934>>,
      <<71943, 71944>>, <<71946, 71947>>, <<71956, 71956>>, <<71959, 71959>>,
      <<71990, 71990>>, <<71993, 71994>>, <<72007, 72015>>, <<72026, 72095>>,
      <<72104, 72105>>, <<72152, 72153>>, <<72165, 72191>>, <<72264, 72271>>,
      <<72355, 72367>>, <<72441, 72703>>, <<72713, 72713>>, <<72759, 72759>>,
      <<72774, 72783>>, <<72813, 72815>>, <<72848, 72849>>, <<72872, 72872>>,
      <<72887, 72959>>, <<72967, 72967>>, <<72970, 72970>>, <<73015, 73017>>,
      <<73019, 73019>>, <<73022, 73022>>, <<73032, 73039>>, <<73050, 73055>>,
      <<73062, 73062>>, <<73065, 73065>>, <<73103, 73103>>, <<73106, 73106>>,
      <<73113, 73119>>, <<73130, 73439>>, <<73465, 73647>>, <<73649, 73663>>,
      <<73714, 73726>>, <<74650, 74751>>, <<74863, 74863>>, <<74869, 74879>>,
      <<75076, 77711>>, <<77811, 77823>>, <<78895, 82943>>, <<83527, 92159>>,
      <<92729, 92735>>, <<92767, 92767>>, <<92778, 92781>>, <<92863, 92863>>,
      <<92874, 92879>>, <<92910, 92911>>, <<92918, 92927>>, <<92998, 93007>>,
      <<93018, 93018>>, <<93026, 93026>>, <<93048, 93052>>, <<93072, 93759>>,
      <<93851, 93951>>, <<94027, 94030>>, <<94088, 94094>>, <<94112, 94175>>,
      <<94181, 94191>>, <<94194, 94207>>, <<100344, 100351>>,
      <<101590, 101631>>, <<101641, 110575>>, <<110580, 110580>>,
      <<110588, 110588>>, <<110591, 110591>>, <<110883, 110927>>,
      <<110931, 110947>>, <<110952, 110959>>, <<111356, 113663>>,
      <<113771, 113775>>, <<113789, 113791>>, <<113801, 113807>>,
      <<113818, 113819>>, <<113824, 118527>>, <<118574, 118575>>,
      <<118599, 118607>>, <<118724, 118783>>, <<119030, 119039>>,
      <<119079, 119080>>, <<119155, 119162>>, <<119275, 119295>>,
      <<119366, 119519>>, <<119540, 119551>>, <<119639, 119647>>,
      <<119673, 119807>>, <<119893, 119893>>, <<119965, 119965>>,
      <<119968, 119969>>, <<119971, 119972>>, <<119975, 119976>>,
      <<119981, 119981>>, <<119994, 119994>>, <<119996, 119996>>,
      <<120004, 120004>>, <<120070, 120070>>, <<120075, 120076>>,
      <<120085, 120085>>, <<120093, 120093>>, <<120122, 120122>>,
      <<120127, 120127>>, <<120133, 120133>>, <<120135, 120137>>,
      <<120145, 120145>>, <<120486, 120487>>, <<120780, 120781>>,
      <<121484, 121498>>, <<121504, 121504>>, <<121520, 122623>>,
      <<122655, 122879>>, <<122887, 122887>>, <<122905, 122906>>,
      <<122914, 122914>>, <<122917, 122917>>, <<122923, 123135>>,
      <<123181, 123183>>, <<123198, 123199>>, <<123210, 123213>>,
      <<123216, 123535>>, <<123567, 123583>>, <<123642, 123646>>,
      <<123648, 124895>>, <<124903, 124903>>, <<124908, 124908>>,
      <<124911, 124911>>, <<124927, 124927>>, <<125125, 125126>>,
      <<125143, 125183>>, <<125260, 125263>>, <<125274, 125277>>,
      <<125280, 126064>>, <<126133, 126208>>, <<126270, 126463>>,
      <<126468, 126468>>, <<126496, 126496>>, <<126499, 126499>>,
      <<126501, 126502>>, <<126504, 126504>>, <<126515, 126515>>,
      <<126520, 126520>>, <<126522, 126522>>, <<126524, 126529>>,
      <<126531, 126534>>, <<126536, 126536>>, <<126538, 126538>>,
      <<126540, 126540>>, <<126544, 126544>>, <<126547, 126547>>,
      <<126549, 126550>>, <<126552, 126552>>, <<126554, 126554>>,
      <<126556, 126556>>, <<126558, 126558>>, <<126560, 126560>>,
      <<126563, 126563>>, <<126565, 126566>>, <<126571, 126571>>,
      <<126579, 126579>>, <<126584, 126584>>, <<126589, 126589>>,
      <<126591, 126591>>, <<126602, 126602>>, <<126620, 126624>>,
      <<126628, 126628>>, <<126634, 126634>>, <<126652, 126703>>,
      <<126706, 126975>>, <<127020, 127023>>, <<127124, 127135>>,
      <<127151, 127152>>, <<127168, 127168>>, <<127184, 127184>>,
      <<127222, 127231>>, <<127406, 127461>>, <<127491, 127503>>,
      <<127548, 127551>>, <<127561, 127567>>, <<127570, 127583>>,
      <<127590, 127743>>, <<128728, 128732>>, <<128749, 128751>>,
      <<128765, 128767>>, <<128884, 128895>>, <<128985, 128991>>,
      <<129004, 129007>>, <<129009, 129023>>, <<129036, 129039>>,
      <<129096, 129103>>, <<129114, 129119>>, <<129160, 129167>>,
      <<129198, 129199>>, <<129202, 129279>>, <<129620, 129631>>,
      <<129646, 129647>>, <<129653, 129655>>, <<129661, 129663>>,
      <<129671, 129679>>, <<129709, 129711>>, <<129723, 129727>>,
      <<129734, 129743>>, <<129754, 129759>>, <<129768, 129775>>,
      <<129783, 129791>>, <<129939, 129939>>, <<129995, 130031>>,
      <<130042, 131071>>, <<173792, 173823>>, <<177977, 177983>>,
      <<178206, 178207>>, <<183970, 183983>>, <<191457, 194559>>,
      <<195102, 196607>>, <<201547, 917759>>, <<918000, 1114111>>>>

\* ------------------------------------------------------------------------
\* Text helpers: str.strip(), str.upper(), str.startswith()
\* ------------------------------------------------------------------------
\* the apostrophe, as a piece of text
SQ == "'"

\* the grave accent (U+0060) that quotes an identifier in a statement
BQ == "<U+0060>"

\* the quotation mark, as a piece of text
DQ == "\""

Letters == {"A","B","C","D","E","F","G","H","I","J","K","L","M",
            "N","O","P","Q","R","S","T","U","V","W","X","Y","Z"}

\* c.upper() of the characters that str.upper() changes
UpperChar ==
    [c \in {p[1] : p \in UpperPairs} |->
        (CHOOSE p \in UpperPairs : p[1] = c)[2]]

LowerChar(c) ==
    CASE c = "A" -> "a" [] c = "B" -> "b" [] c = "C" -> "c" [] c = "D" -> "d"
      [] c = "E" -> "e" [] c = "F" -> "f" [] c = "G" -> "g" [] c = "H" -> "h"
      [] c = "I" -> "i" [] c = "J" -> "j" [] c = "K" -> "k" [] c = "L" -> "l"
      [] c = "M" -> "m" [] c = "N" -> "n" [] c = "O" -> "o" [] c = "P" -> "p"
      [] c = "Q" -> "q" [] c = "R" -> "r" [] c = "S" -> "s" [] c = "T" -> "t"
      [] c = "U" -> "u" [] c = "V" -> "v" [] c = "W" -> "w" [] c = "X" -> "x"
      [] c = "Y" -> "y" [] c = "Z" -> "z" [] OTHER -> c

\* s.upper(): character by character, a character that has no upper case
\* staying as it is
RECURSIVE Upper(_)
Upper(s) ==
    IF s = <<>> THEN <<>>
    ELSE (IF Head(s) \in DOMAIN UpperChar THEN UpperChar[Head(s)]
          ELSE <<Head(s)>>) \o Upper(Tail(s))

Lower(s) == [i \in 1..Len(s) |-> LowerChar(s[i])]

\* every second letter lower-cased: SeLeCt
MixedCase(s) == [i \in 1..Len(s) |-> IF i % 2 = 0 THEN LowerChar(s[i]) ELSE s[i]]

RECURSIVE LStrip(_)
LStrip(s) == IF s # <<>> /\ Head(s) \in Whitespace THEN LStrip(Tail(s)) ELSE s

RECURSIVE RStrip(_)
RStrip(s) ==
    IF s # <<>> /\ s[Len(s)] \in Whitespace
    THEN RStrip(SubSeq(s, 1, Len(s) - 1)) ELSE s

\* s.strip()
Strip(s) == RStrip(LStrip(s))

\* the first place of s in lo..hi whose character is not in chars, and
\* hi + 1 when there is none
RECURSIVE FirstOutside(_, _, _, _)
FirstOutside(s, chars, lo, hi) ==
    IF lo > hi THEN hi + 1
    ELSE IF lo = hi THEN (IF s[lo] \notin chars THEN lo ELSE hi + 1)
    ELSE IF \E i \in lo..((lo + hi) \div 2) : s[i] \notin chars
    THEN FirstOutside(s, chars, lo, (lo + hi) \div 2)
    ELSE FirstOutside(s, chars, (lo + hi) \div 2 + 1, hi)

\* the last place of s in lo..hi whose character is not in chars, and
\* lo - 1 when there is none
RECURSIVE LastOutside(_, _, _, _)
LastOutside(s, chars, lo, hi) ==
    IF lo > hi THEN lo - 1
    ELSE IF lo = hi THEN (IF s[lo] \notin chars THEN lo ELSE lo - 1)
    ELSE IF \E i \in ((lo + hi) \div 2 + 1)..hi : s[i] \notin chars
    THEN LastOutside(s, chars, (lo + hi) \div 2 + 1, hi)
    ELSE LastOutside(s, chars, lo, (lo + hi) \div 2)

\* s without the characters of chars at its two ends
StripOf(s, chars) ==
    SubSeq(s, FirstOutside(s, chars, 1, Len(s)), LastOutside(s, chars, 1, Len(s)))

StartsWith(s, prefix) ==
    /\ Len(s) >= Len(prefix)
    /\ SubSeq(s, 1, Len(prefix)) = prefix

\* ------------------------------------------------------------------------
\* execute_sql: the read-only guard (server.py 286-291)
\* ------------------------------------------------------------------------
KwSelect   == <<"S","E","L","E","C","T">>
KwShow     == <<"S","H","O","W">>
KwDescribe == <<"D","E","S","C","R","I","B","E">>
KwDesc     == <<"D","E","S","C">>
KwExplain  == <<"E","X","P","L","A","I","N">>
KwWith     == <<"W","I","T","H">>

allowed_keywords == <<KwSelect, KwShow, KwDescribe, KwDesc, KwExplain, KwWith>>

\* query.strip().upper()
query_upper(query) == Upper(Strip(query))

\* a plausible slip: the statement is upper-cased but not stripped
NoStripIsAllowed(query) ==
    \E i \in 1..Len(allowed_keywords) : StartsWith(Upper(query), allowed_keywords[i])

\* any(query_upper.startswith(keyword) for keyword in allowed_keywords)
IsAllowed(query) ==
    \E i \in 1..Len(allowed_keywords) :
        StartsWith(query_upper(query), allowed_keywords[i])

GuardRejection ==
    <<"Error: Only read-only queries (SELECT, SHOW, DESCRIBE, EXPLAIN) are allowed">>

\* ------------------------------------------------------------------------
\* ConfigurationManager (server.py 65-100)
\* ------------------------------------------------------------------------
\* An optional value is <<>> when absent and <<v>> when present.
Absent == <<>>
Some(v) == <<v>>

EnvKeys == {"MARIADB_HOST", "MARIADB_PORT", "MARIADB_USER",
            "MARIADB_PASSWORD", "MARIADB_DATABASE"}

Digits == {DecimalDigits[r][i] : r \in DOMAIN DecimalDigits, i \in 1..10}

\* the value of a decimal digit
DigitVal ==
    [c \in Digits |->
        (CHOOSE i \in 1..10 :
            \E r \in DOMAIN DecimalDigits : DecimalDigits[r][i] = c) - 1]

\* the digits of a code point in the name of a piece and in an escape
HexUpper == <<"0","1","2","3","4","5","6","7","8","9","A","B","C","D","E","F">>
HexLower == <<"0","1","2","3","4","5","6","7","8","9","a","b","c","d","e","f">>

\* the piece names its code point: "<U+" , four to six digits, ">"
IsCodePiece(c) ==
    /\ Len(c) >= 8
    /\ SubSeq(c, 1, 3) = "<U+"
    /\ SubSeq(c, Len(c), Len(c)) = ">"

RECURSIVE HexValue(_, _, _)
HexValue(c, i, acc) ==
    IF i >= Len(c) THEN acc
    ELSE HexValue(c, i + 1,
                  16 * acc + (CHOOSE d \in 1..16 : HexUpper[d] = SubSeq(c, i, i)) - 1)

\* ord(c) of a piece that names its code point
CodePoint(c) == HexValue(c, 4, 0)

\* str.isprintable() of the character with this code point
IsPrintable(cp) ==
    \A r \in DOMAIN NonPrintableRanges :
        cp < NonPrintableRanges[r][1] \/ cp > NonPrintableRanges[r][2]

\* the last n hexadecimal digits of cp, in lower case
RECURSIVE HexDigitsOf(_, _)
HexDigitsOf(cp, n) ==
    IF n = 0 THEN <<>>
    ELSE Append(HexDigitsOf(cp \div 16, n - 1), HexLower[(cp % 16) + 1])

\* the escape repr() writes for a code point that is not printable
Escape(cp) ==
    IF cp < 256 THEN <<"\\", "x">> \o HexDigitsOf(cp, 2)
    ELSE IF cp < 65536 THEN <<"\\", "u">> \o HexDigitsOf(cp, 4)
    ELSE <<"\\", "U">> \o HexDigitsOf(cp, 8)

\* repr(c) inside the quotes of repr(text), one piece for each character
\* written: the quote and the backslash are escaped, tab, line feed and
\* carriage return have their letter, and any other character that is not
\* printable is written as the escape of its code point
ReprChar(c, quote) ==
    IF c = quote \/ c = "\\" THEN <<"\\", c>>
    ELSE IF c = "\t" THEN <<"\\", "t">>
    ELSE IF c = "\n" THEN <<"\\", "n">>
    ELSE IF c = "\r" THEN <<"\\", "r">>
    ELSE IF c = "\f" THEN Escape(12)
    ELSE IF IsCodePiece(c) /\ ~IsPrintable(CodePoint(c)) THEN Escape(CodePoint(c))
    ELSE <<c>>

\* the characters of text as repr() writes them between the quotes
RECURSIVE ReprBody(_, _)
ReprBody(text, quote) ==
    IF text = <<>> THEN <<>>
    ELSE IF Len(text) = 1 THEN ReprChar(text[1], quote)
    ELSE LET h == Len(text) \div 2
         IN  ReprBody(SubSeq(text, 1, h), quote)
                 \o ReprBody(SubSeq(text, h + 1, Len(text)), quote)

\* repr(text) of a str: in quotation marks when the text has an apostrophe
\* and no quotation mark, in apostrophes otherwise
Repr(text) ==
    LET chars == {text[i] : i \in 1..Len(text)}
        quote == IF SQ \in chars /\ DQ \notin chars THEN DQ ELSE SQ
    IN  <<quote>> \o ReprBody(text, quote) \o <<quote>>

\* the precision of "%.200R" in the message of int()'s ValueError
ReprPrecision == 200

\* str(ValueError) of a failed int(text): the message is formatted with
\* "%.200R", which cuts repr(text) after its first 200 characters
ValueErrorText(text) ==
    LET r == Repr(text)
    IN  <<"invalid literal for int() with base 10: ">>
            \o (IF Len(r) > ReprPrecision THEN SubSeq(r, 1, ReprPrecision) ELSE r)

\* the zero of every script
\* the value of digits and underscores, most significant digit first
RECURSIVE DigitsValue(_, _)
DigitsValue(s, acc) ==
    IF s = <<>> THEN acc
    ELSE IF Head(s) = "_" THEN DigitsValue(Tail(s), acc)
    ELSE DigitsValue(Tail(s), 10 * acc + DigitVal[Head(s)])

\* digits, with single underscores allowed between two digits
WellFormedDigits(s) ==
    /\ s # <<>>
    /\ \A i \in 1..Len(s) :
          \/ s[i] \in Digits
          \/ /\ s[i] = "_"
             /\ i > 1 /\ i < Len(s)
             /\ s[i-1] \in Digits /\ s[i+1] \in Digits

\* sys.get_int_max_str_digits() as the interpreter starts
MaxStrDigits == 4300

\* str(ValueError) of an int(text) whose literal has more digits than the
\* interpreter converts
ExceedsLimitText(digits) ==
    <<"Exceeds the limit (", ToString(MaxStrDigits),
      " digits) for integer string conversion: value has ", ToString(digits),
      " digits; use sys.set_int_max_str_digits() to increase the limit">>

\* the digits, of every script, and the underscores that body begins with
DigitsScanned(body) ==
    SubSeq(body, 1, FirstOutside(body, Digits \cup {"_"}, 1, Len(body)) - 1)

\* int(text) once the literal has been scanned: digits that are well formed
\* and more than MaxStrDigits raise the ValueError of the limit, whatever
\* follows them; otherwise a misplaced underscore among the digits, or
\* anything left after them, raises ValueError; zeros may lead the digits
IntScanned(text, sign, body, scan) ==
    LET digits == Cardinality({i \in 1..Len(scan) : scan[i] # "_"})
        zeros  == {DecimalDigits[r][1] : r \in DOMAIN DecimalDigits}
        first  == FirstOutside(scan, zeros \cup {"_"}, 1, Len(scan))
        value  == DigitsValue(SubSeq(scan, first, Len(scan)), 0)
    IN  IF WellFormedDigits(scan) /\ digits > MaxStrDigits
        THEN [ok |-> FALSE, val |-> 0, error |-> ExceedsLimitText(digits)]
        ELSE IF ~WellFormedDigits(scan) \/ Len(scan) < Len(body)
        THEN [ok |-> FALSE, val |-> 0, error |-> ValueErrorText(text)]
        ELSE [ok |-> TRUE,
              val |-> IF sign = "-" THEN 0 - value ELSE value,
              error |-> <<>>]

\* int(text) of the literal t, the text without the whitespace around it:
\* one sign is accepted before the digits
IntLiteral(text, t) ==
    IF t # <<>> /\ Head(t) \in {"+", "-"}
    THEN IntScanned(text, Head(t), Tail(t), DigitsScanned(Tail(t)))
    ELSE IntScanned(text, "", t, DigitsScanned(t))

\* int(text) of a str
int(text) == IntLiteral(text, StripOf(text, IntWhitespace))

\* os.getenv(key, default)
getenv(environ, key, default) ==
    IF environ[key] = Absent THEN default ELSE environ[key][1]

\* load_dotenv(file, override=False): a key of the file is set in the
\* process environment only where the environment has no value for it
load_dotenv(environ, file) ==
    IF file = Absent THEN environ
    ELSE [k \in EnvKeys |->
            IF environ[k] = Absent THEN file[1][k] ELSE environ[k]]

DefaultPort == <<"3","3","0","6">>

\* the dict built at server.py 82-88, from an environment whose port parses
ConfigOf(environ) ==
    [host     |-> getenv(environ, "MARIADB_HOST", <<"localhost">>),
     port     |-> int(getenv(environ, "MARIADB_PORT", DefaultPort)).val,
     user     |-> getenv(environ, "MARIADB_USER", <<"root">>),
     password |-> getenv(environ, "MARIADB_PASSWORD", <<>>),
     database |-> getenv(environ, "MARIADB_DATABASE", <<"mysql">>)]

PortParses(environ) == int(getenv(environ, "MARIADB_PORT", DefaultPort)).ok

\* a slip: the keys are stored one by one, so those before the port are
\* already replaced when int() raises
LoadKeyByKey(environ, file, oldconfig) ==
    LET e == load_dotenv(environ, file)
    IN  IF PortParses(e)
        THEN [environ |-> e, ok |-> TRUE, config |-> ConfigOf(e), error |-> <<>>]
        ELSE [environ |-> e, ok |-> FALSE,
              config |-> [oldconfig EXCEPT
                             !.host = getenv(e, "MARIADB_HOST", <<"localhost">>)],
              error |-> int(getenv(e, "MARIADB_PORT", DefaultPort)).error]

\* _load_configuration: the environment after load_dotenv, and either the new
\* config dict or the ValueError that int() raised before self.config was
\* assigned
LoadConfiguration(environ, file, oldconfig) ==
    LET e == load_dotenv(environ, file)
    IN  IF PortParses(e)
        THEN [environ |-> e, ok |-> TRUE, config |-> ConfigOf(e), error |-> <<>>]
        ELSE [environ |-> e, ok |-> FALSE, config |-> oldconfig,
              error |-> int(getenv(e, "MARIADB_PORT", DefaultPort)).error]

\* Environments and .env files the model draws from; the port of EnvShop is
\* 3307 written after a no-break space and with a fullwidth seven, that of
\* EnvBadPort is no number, that of EnvLongPort is a number of 4301 digits,
\* and that of the .env file is 3308 written with an underscore
EnvUnset == [k \in EnvKeys |-> Absent]

EnvShop ==
    [k \in EnvKeys |->
        CASE k = "MARIADB_HOST"     -> Some(<<"db2">>)
          [] k = "MARIADB_PORT"     -> Some(<<"<U+00A0>","3","3","0","<U+FF17>">>)
          [] k = "MARIADB_USER"     -> Some(<<"app">>)
          [] k = "MARIADB_PASSWORD" -> Some(<<"pw">>)
          [] k = "MARIADB_DATABASE" -> Some(<<"shop">>)]

EnvBadPort ==
    [k \in EnvKeys |->
        CASE k = "MARIADB_HOST"     -> Some(<<"db3">>)
          [] k = "MARIADB_PORT"     -> Some(<<"a","b","c">>)
          [] k = "MARIADB_USER"     -> Absent
          [] k = "MARIADB_PASSWORD" -> Absent
          [] k = "MARIADB_DATABASE" -> Some(<<"shop">>)]

\* the port has one digit more than int() converts
EnvLongPort ==
    [k \in EnvKeys |->
        CASE k = "MARIADB_HOST"     -> Some(<<"db4">>)
          [] k = "MARIADB_PORT"     -> Some([i \in 1..(MaxStrDigits + 1) |-> "1"])
          [] k = "MARIADB_USER"     -> Absent
          [] k = "MARIADB_PASSWORD" -> Absent
          [] k = "MARIADB_DATABASE" -> Absent]

Environments == {EnvUnset, EnvShop, EnvBadPort, EnvLongPort}

DotenvFile ==
    [k \in EnvKeys |->
        CASE k = "MARIADB_HOST"     -> Absent
          [] k = "MARIADB_PORT"     -> Some(<<"3","_","3","0","8">>)
          [] k = "MARIADB_USER"     -> Absent
          [] k = "MARIADB_PASSWORD" -> Absent
          [] k = "MARIADB_DATABASE" -> Some(<<"empty">>)]

DotenvFiles == {Absent, Some(DotenvFile)}

\* ------------------------------------------------------------------------
\* Result rows and the statements the tools build
\* ------------------------------------------------------------------------
\* A value of a row is an integer, a text or NULL; a row (a dict) is a
\* sequence of <<column name, value>> pairs in column order.
IntV(n) == [t |-> "int", v |-> n]
StrV(s) == [t |-> "str", v |-> s]
NullV   == [t |-> "null", v |-> 0]

\* str(value)
Str(value) ==
    CASE value.t = "int"  -> <<ToString(value.v)>>
      [] value.t = "str"  -> value.v
      [] value.t = "null" -> <<"None">>

\* value or the empty string
OrEmpty(value) ==
    IF value.t = "null" \/ (value.t = "str" /\ value.v = <<>>) \/
       (value.t = "int" /\ value.v = 0)
    THEN StrV(<<>>) ELSE value

HasKey(row, key) == \E i \in 1..Len(row) : row[i][1] = key

\* row.get(key, default)
Get(row, key, default) ==
    IF HasKey(row, key)
    THEN row[CHOOSE i \in 1..Len(row) : row[i][1] = key][2]
    ELSE default

\* row[key], of a row that has the key
Item(row, key) == row[CHOOSE i \in 1..Len(row) : row[i][1] = key][2]

\* the key whose lookup row[key] raises KeyError when every row is looked up
\* for the keys in their order: the first key that the first row lacking one
\* does not have; Absent when every row has them all
MissingKey(results, keys) ==
    LET lacks(i) == {k \in 1..Len(keys) : ~HasKey(results[i], keys[k])}
        bad      == {i \in 1..Len(results) : lacks(i) # {}}
    IN  IF bad = {} THEN Absent
        ELSE LET i == CHOOSE i \in bad : \A j \in bad : i <= j
                 k == CHOOSE k \in lacks(i) : \A m \in lacks(i) : k <= m
             IN  Some(keys[k])

\* separator.join(texts)
RECURSIVE Join(_, _)
Join(separator, texts) ==
    IF texts = <<>> THEN <<>>
    ELSE IF Len(texts) = 1 THEN texts[1]
    ELSE texts[1] \o separator \o Join(separator, Tail(texts))

ShowDatabases == <<"SHOW DATABASES">>
ShowTables == <<"SHOW TABLES">>
ShowTablesFrom(database) == <<"SHOW TABLES FROM ", BQ>> \o database \o <<BQ>>
Describe(full_table_name) == <<"DESCRIBE ">> \o full_table_name
FullTableName(table_name, database) ==
    IF database # <<>>
    THEN <<BQ>> \o database \o <<BQ, ".", BQ>> \o table_name \o <<BQ>>
    ELSE <<BQ>> \o table_name \o <<BQ>>
StatusQuery(table_name, database) ==
    IF database # <<>>
    THEN <<"SHOW TABLE STATUS FROM ", BQ>> \o database \o <<BQ, " LIKE ", SQ>>
             \o table_name \o <<SQ>>
    ELSE <<"SHOW TABLE STATUS LIKE ", SQ>> \o table_name \o <<SQ>>
UseQuery(database) == <<"USE ", BQ>> \o database \o <<BQ>>

\* ------------------------------------------------------------------------
\* The MariaDB server behind cursor.execute / cursor.fetchall
\* (server.py 142-144): a fixed catalogue of two databases
\* ------------------------------------------------------------------------
DbMysql == <<"mysql">>
DbShop  == <<"shop">>
DbEmpty == <<"empty">>
Databases == {DbMysql, DbShop, DbEmpty}

TablesOf(database) ==
    IF database = DbShop THEN << <<"items">>, <<"orders">> >>
    ELSE IF database = DbEmpty THEN <<>>
    ELSE << <<"user">> >>

ColField    == <<"F","i","e","l","d">>
ColType     == <<"T","y","p","e">>
ColNull     == <<"N","u","l","l">>
ColKey      == <<"K","e","y">>
ColDefault  == <<"D","e","f","a","u","l","t">>
ColExtra    == <<"E","x","t","r","a">>
ColEngine   == <<"E","n","g","i","n","e">>
ColRows     == <<"R","o","w","s">>
ColDatabase == <<"D","a","t","a","b","a","s","e">>
ColTables   == <<"T","a","b","l","e","s">>
ColDb       == <<"d","b">>
ColId       == <<"i","d">>
ColName     == <<"n","a","m","e">>

\* statements a caller of execute_sql types
StSelectDb == <<" ","s","e","l","e","c","t"," ","d","b">>
StSelectItems == <<"S","E","L","E","C","T"," ","*">>
StDrop == <<"D","R","O","P"," ","t">>
Statements == {StSelectItems, StDrop}

ItemRows ==
    << << <<ColId, IntV(1)>>, <<ColName, StrV(<<"nut">>)>> >>,
       << <<ColId, IntV(2)>>, <<ColName, NullV>> >> >>

SchemaRows ==
    << << <<ColField, StrV(<<"id">>)>>, <<ColType, StrV(<<"int(11)">>)>>,
          <<ColNull, StrV(<<"NO">>)>>, <<ColKey, StrV(<<"PRI">>)>>,
          <<ColDefault, NullV>>, <<ColExtra, StrV(<<>>)>> >> >>

StatusRows ==
    << << <<ColEngine, StrV(<<"InnoDB">>)>>, <<ColRows, IntV(2)>> >> >>

\* The outcome of a statement on a session whose selected database is db:
\* an error, or a result with or without a description.  db is the selected
\* database after the statement.
Failed(cause) == [ok |-> FALSE, description |-> FALSE, rows |-> <<>>,
                  cause |-> cause]
Result(rows)  == [ok |-> TRUE, description |-> TRUE, rows |-> rows,
                  cause |-> <<>>]
NoResult      == [ok |-> TRUE, description |-> FALSE, rows |-> <<>>,
                  cause |-> <<>>]

TableRows(database) ==
    [i \in 1..Len(TablesOf(database)) |->
        << <<ColTables, StrV(TablesOf(database)[i])>> >>]

HasTable(database, table_name) ==
    \E i \in 1..Len(TablesOf(database)) : TablesOf(database)[i] = table_name

Server(statement, db) ==
    CASE statement = ShowDatabases ->
            Result(<< << <<ColDatabase, StrV(DbMysql)>> >>,
                      << <<ColDatabase, StrV(DbShop)>> >> >>)
      [] statement = ShowTables -> Result(TableRows(db))
      [] \E d \in Databases : statement = ShowTablesFrom(d) ->
            Result(TableRows(CHOOSE d \in Databases : statement = ShowTablesFrom(d)))
      [] \E d \in Databases : statement = UseQuery(d) -> NoResult
      [] statement = Describe(FullTableName(<<"items">>, <<>>)) ->
            IF HasTable(db, <<"items">>) THEN Result(SchemaRows)
            ELSE Failed(<<"(1146, \"Table does not exist\")">>)
      [] statement = Describe(FullTableName(<<"items">>, DbShop)) ->
            Result(SchemaRows)
      [] statement = StatusQuery(<<"items">>, <<>>) ->
            IF HasTable(db, <<"items">>) THEN Result(StatusRows) ELSE Result(<<>>)
      [] statement = StatusQuery(<<"items">>, DbShop) -> Result(StatusRows)
      [] statement = StSelectDb -> Result(<< << <<ColDb, StrV(db)>> >> >>)
      [] statement = StSelectItems ->
            IF HasTable(db, <<"items">>) THEN Result(ItemRows)
            ELSE Failed(<<"(1146, \"Table does not exist\")">>)
      [] OTHER -> Failed(<<"(1064, \"You have an error in your SQL syntax\")">>)

\* the database a session has selected after the statement
SelectedAfter(statement, db) ==
    IF \E d \in Databases : statement = UseQuery(d)
    THEN CHOOSE d \in Databases : statement = UseQuery(d)
    ELSE db

\* ------------------------------------------------------------------------
\* The texts the tools return
\* ------------------------------------------------------------------------
\* a slip of copy and paste: list_tables reports with the text of
\* list_databases
ErrorPrefixCopied(tool) ==
    CASE tool = "list_databases"   -> "Error listing databases: "
      [] tool = "list_tables"      -> "Error listing databases: "
      [] tool = "get_table_schema" -> "Error getting table schema: "
      [] tool = "execute_sql"      -> "Error executing SQL: "
      [] tool = "reload_config"    -> "Error reloading configuration: "

\* the except clause of each tool: f"Error ...: {str(e)}"
ErrorPrefix(tool) ==
    CASE tool = "list_databases"   -> "Error listing databases: "
      [] tool = "list_tables"      -> "Error listing tables: "
      [] tool = "get_table_schema" -> "Error getting table schema: "
      [] tool = "execute_sql"      -> "Error executing SQL: "
      [] tool = "reload_config"    -> "Error reloading configuration: "

ErrorText(tool, cause) == <<ErrorPrefix(tool)>> \o cause

ReloadConfirmation ==
    <<"Configuration reloaded successfully. New connection will be established on next database operation.">>

\* str(KeyError(key))
KeyErrorText(key) == <<SQ>> \o key \o <<SQ>>

\* list_databases, server.py 192-194
ListDatabasesText(results) ==
    LET databases == [i \in 1..Len(results) |->
                        Item(results[i], ColDatabase)]
    IN  <<"Available databases (", ToString(Len(databases)), "):\n">>
        \o Join(<<"\n">>, [i \in 1..Len(databases) |->
                              <<"- ">> \o Str(databases[i])])

\* str(IndexError) of list(row.values())[0] on a row with no column
IndexErrorText == <<"list index out of range">>

\* list_tables, server.py 213-225, of rows that have a column
ListTablesText(results, database) ==
    LET db_name == IF database # <<>> THEN database ELSE <<"current database">>
        tables  == [i \in 1..Len(results) |-> results[i][1][2]]
    IN  IF results = <<>>
        THEN <<"No tables found in ">> \o db_name
        ELSE <<"Tables in ">> \o db_name
             \o <<" (", ToString(Len(tables)), "):\n">>
             \o Join(<<"\n">>, [i \in 1..Len(tables) |->
                                   <<"- ">> \o Str(tables[i])])

\* the keys get_table_schema looks up in each row, server.py 251-256
SchemaKeys == <<ColField, ColType, ColNull, ColKey, ColDefault, ColExtra>>

\* get_table_schema, server.py 250-258: one line per column, of rows that
\* have the six keys
RECURSIVE SchemaLines(_)
SchemaLines(results) ==
    IF results = <<>> THEN <<>>
    ELSE LET row == results[1]
         IN  <<"| ">> \o Str(Item(row, ColField))
             \o <<" | ">> \o Str(Item(row, ColType))
             \o <<" | ">> \o Str(Item(row, ColNull))
             \o <<" | ">> \o Str(OrEmpty(Item(row, ColKey)))
             \o <<" | ">> \o Str(OrEmpty(Item(row, ColDefault)))
             \o <<" | ">> \o Str(OrEmpty(Item(row, ColExtra)))
             \o <<" |\n">> \o SchemaLines(Tail(results))

SchemaText(table_name, results) ==
    <<"Schema for table ", SQ>> \o table_name \o <<SQ, ":\n\n">>
    \o <<"| Field | Type | Null | Key | Default | Extra |\n">>
    \o <<"|-------|------|------|-----|---------|-------|\n">>
    \o SchemaLines(results)

\* get_table_schema, server.py 266-274
StatusText(status_results) ==
    IF status_results = <<>> THEN <<>>
    ELSE LET status == status_results[1]
             NA     == StrV(<<"N/A">>)
         IN  <<"\nTable Info:\n">>
             \o <<"- Engine: ">> \o Str(Get(status, ColEngine, NA)) \o <<"\n">>
             \o <<"- Rows: ">> \o Str(Get(status, ColRows, NA)) \o <<"\n">>
             \o <<"- Data Length: ">>
             \o Str(Get(status, <<"D","a","t","a","_","l","e","n","g","t","h">>, NA))
             \o <<" bytes\n">>
             \o <<"- Auto Increment: ">>
             \o Str(Get(status, <<"A","u","t","o","_","i","n","c","r","e","m","e","n","t">>, NA))
             \o <<"\n">>
             \o <<"- Create Time: ">>
             \o Str(Get(status, <<"C","r","e","a","t","e","_","t","i","m","e">>, NA))
             \o <<"\n">>
             \o <<"- Comment: ">>
             \o Str(Get(status, <<"C","o","m","m","e","n","t">>, NA))
             \o <<"\n">>

TableNotFound(table_name) ==
    <<"Table ", SQ>> \o table_name \o <<SQ, " not found">>

\* execute_sql, server.py 299-325
DisplayLimit == 100

Dashes(n) == [i \in 1..n |-> "-"]

RECURSIVE DataLines(_, _)
DataLines(rows, columns) ==
    IF rows = <<>> THEN <<>>
    ELSE Join(<<" | ">>, [j \in 1..Len(columns) |->
                             Str(Get(rows[1], columns[j], StrV(<<>>)))])
         \o <<"\n">> \o DataLines(Tail(rows), columns)

\* a slip: the note is added from the hundredth row on
FormatNoteFromLimit(results) ==
    IF results = <<>>
    THEN <<"Query executed successfully. No results returned.">>
    ELSE LET columns   == [j \in 1..Len(results[1]) |-> results[1][j][1]]
             header    == Join(<<" | ">>, columns)
             separator == Join(<<" | ">>, [j \in 1..Len(columns) |->
                                             Dashes(Len(columns[j]))])
             shown     == SubSeq(results, 1,
                              IF Len(results) < DisplayLimit
                              THEN Len(results) ELSE DisplayLimit)
         IN  <<"Query Results:\n\n">> \o header \o <<"\n">>
             \o separator \o <<"\n">>
             \o DataLines(shown, columns)
             \o (IF Len(results) >= DisplayLimit
                 THEN <<"\n... and ", ToString(Len(results) - DisplayLimit),
                        " more rows (truncated for display)">>
                 ELSE <<>>)
             \o <<"\nTotal rows: ", ToString(Len(results))>>

\* execute_sql, server.py 299-325: the text made of the rows
FormatResults(results) ==
    IF results = <<>>
    THEN <<"Query executed successfully. No results returned.">>
    ELSE LET columns   == [j \in 1..Len(results[1]) |-> results[1][j][1]]
             header    == Join(<<" | ">>, columns)
             separator == Join(<<" | ">>, [j \in 1..Len(columns) |->
                                             Dashes(Len(columns[j]))])
             shown     == SubSeq(results, 1,
                              IF Len(results) < DisplayLimit
                              THEN Len(results) ELSE DisplayLimit)
         IN  <<"Query Results:\n\n">> \o header \o <<"\n">>
             \o separator \o <<"\n">>
             \o DataLines(shown, columns)
             \o (IF Len(results) > DisplayLimit
                 THEN <<"\n... and ", ToString(Len(results) - DisplayLimit),
                        " more rows (truncated for display)">>
                 ELSE <<>>)
             \o <<"\nTotal rows: ", ToString(Len(results))>>

\* ------------------------------------------------------------------------
\* State
\* ------------------------------------------------------------------------
VARIABLES
    environ,        \* os.environ, restricted to the five MARIADB_ keys
    dotenv,         \* the .env file beside the package, Absent when missing
    config,         \* config_manager.config
    db_connection,  \* the MariaDBConnection: pool handle and parameters
    pools,          \* every pool aiomysql.create_pool has returned
    task,           \* the tool call each asyncio task is running
    ready,          \* the callbacks the event loop has scheduled, oldest first
    event,          \* what the last step ended: execute_query calls, a tool call
    budget,         \* tool calls that may still be started
    envChanges,     \* changes made to the environment or the .env file
    cancels,        \* calls of Task.cancel() the dispatcher may still make
    stmt,           \* a statement handed to the guard on its own
    verdict,        \* what the guard said of stmt
    resultset,      \* rows handed to the formatter of execute_sql on their own
    rendered        \* the text the formatter made of resultset

vars == <<environ, dotenv, config, db_connection, pools, task, ready, event,
          budget, envChanges, cancels, stmt, verdict, resultset, rendered>>

Tasks == 1..NumTasks
Callers == 1..NumCallers
Clients == 1..NumClients

\* self.pool is None
NoPool == 0

\* the keyword arguments of aiomysql.create_pool, server.py 123-132
minsize == 1
maxsize == 10

ConnArgs(dbc) ==
    [host |-> dbc.host, port |-> dbc.port, user |-> dbc.user,
     password |-> dbc.password, db |-> dbc.database]

\* MariaDBConnection.__init__ and the assignments of reload_config 167-172
Gateway(cfg) ==
    [pool |-> NoPool, host |-> cfg.host, port |-> cfg.port, user |-> cfg.user,
     password |-> cfg.password, database |-> cfg.database]

\* a pool as create_pool returns it: minsize sessions connected and free,
\* each with the pool's database selected, none checked out.  holder is the
\* task that holds the lock of the pool's condition across an await (the one
\* that is connecting a session), lockq the tasks waiting for that lock and
\* condq the tasks waiting on the condition, oldest first
NewPool(args) ==
    [args |-> args, closing |-> FALSE, closed |-> FALSE,
     free |-> [i \in 1..minsize |-> args.db], used |-> 0,
     holder |-> 0, lockq |-> <<>>, condq |-> <<>>]

NoArgs == [host |-> <<>>, port |-> 0, user |-> <<>>, password |-> <<>>, db |-> <<>>]

\* sub says where in the pool a suspended task stands: "lock" waiting for the
\* lock, "granted" given the lock and scheduled, "connect" connecting a
\* session, "cond" waiting on the condition, "notified" woken from it and
\* scheduled, "relock" and "regranted" a notified Condition.wait() waiting
\* for the lock and given it, "crelock" and "cregranted" a cancelled one,
\* "new" and "done" the _wakeup() task of a release scheduled and finished.
\* cancel says that Task.cancel() has been
\* called and CancelledError has not yet been raised in the task: "waiter"
\* when the future the task awaited was cancelled, "must" when that future
\* was done and the task is cancelled as it runs
IdleTask ==
    [tool |-> "", pc |-> "idle", sub |-> "", stage |-> "", query |-> <<>>,
     arg_query |-> <<>>, arg_database |-> <<>>, arg_table |-> <<>>,
     cargs |-> NoArgs, apool |-> NoPool, conn |-> Absent, nread |-> 0,
     schema_info |-> <<>>, failed |-> FALSE, outcome |-> "", out |-> <<>>,
     pend |-> Absent, cancel |-> ""]

\* the awaits a call can be suspended at; "release" is the exit of
\* "async with self.pool.acquire() as conn", which awaits the pool's
\* _wakeup() task after the session has been given back
Suspended ==
    {"create_pool", "acquire", "execute", "fetchall", "release", "wait_closed"}

\* no call ended in the step; query lists the execute_query calls the step
\* ended, in order, load says how config_manager.reload() ended when the
\* step called it, and reloads counts the reload_config calls that have
\* returned one after the other with no other step between them
NoEvent == [query |-> <<>>, call |-> Absent, load |-> Absent, reloads |-> 0]

\* what a step of a task reads and writes, with the execute_query calls and
\* the tool call it has ended so far
World ==
    [environ |-> environ, config |-> config, dbc |-> db_connection,
     pools |-> pools, task |-> task, ready |-> ready,
     ends |-> <<>>, call |-> Absent, load |-> Absent]

Without(seq, t) == SelectSeq(seq, LAMBDA u : u # t)

\* ------------------------------------------------------------------------
\* Steps of a tool call between two awaits
\* ------------------------------------------------------------------------
\* the tool returns text
Finish(tk, text) ==
    [tk EXCEPT !.pc = "done", !.sub = "", !.outcome = "returned", !.out = text]

\* except Exception as e: return f"Error ...: {str(e)}"
Caught(tk, cause) ==
    [Finish(tk, ErrorText(tk.tool, cause)) EXCEPT !.failed = TRUE]

\* CancelledError is no Exception: it leaves the tool
Cancelled(tk) ==
    [Finish([tk EXCEPT !.pend = Absent, !.cancel = ""], <<"CancelledError">>)
        EXCEPT !.outcome = "raised"]

ClosedPoolError == <<"Cannot acquire connection after closing pool">>

\* the execute_query call of tk has ended: how, with which rows when it
\* returned and with which exception when it raised
QueryEnd(tk, exit, results, cause) ==
    [tool |-> tk.tool, stage |-> tk.stage, statement |-> tk.query,
     pool |-> tk.apool, conn |-> tk.conn, nread |-> tk.nread,
     exit |-> exit, results |-> results, cause |-> cause]

Ended(w, q) == [w EXCEPT !.ends = Append(@, q)]

\* the task goes on, or hands its result to the dispatcher and is free again
Advance(w, t, tk) ==
    IF tk.pc = "done"
    THEN [w EXCEPT !.task[t] = IdleTask, !.call = Some(tk)]
    ELSE [w EXCEPT !.task[t] = tk]

\* the step of task t is over: the variables take the values it left
Commit(w, t) ==
    LET tool == IF w.call # Absent THEN w.call[1].tool ELSE w.task[t].tool
    IN  /\ environ' = w.environ
        /\ config' = w.config
        /\ db_connection' = w.dbc
        /\ pools' = w.pools
        /\ task' = w.task
        /\ ready' = w.ready
        /\ event' = [query |-> w.ends,
                     call  |-> w.call,
                     load  |-> w.load,
                     reloads |->
                        IF tool # "reload_config" THEN 0
                        ELSE IF w.call = Absent THEN event.reloads
                        ELSE IF w.call[1].outcome = "raised" THEN 0
                        ELSE IF event.reloads < 2 THEN event.reloads + 1 ELSE 2]

\* ------------------------------------------------------------------------
\* The pool of aiomysql: its condition, acquire and release
\* ------------------------------------------------------------------------
\* the waits for the lock: in Lock.acquire(), and in a Condition.wait() that
\* was notified or cancelled
LockWaits == {"lock", "relock", "crelock"}

\* asyncio.Lock.acquire() returns at once: the lock is not held and every
\* task in its queue has had its wait cancelled
LockFree(w, p) ==
    /\ w.pools[p].holder = 0
    /\ \A i \in 1..Len(w.pools[p].lockq) :
          /\ w.task[w.pools[p].lockq[i]].sub \in LockWaits
          /\ w.task[w.pools[p].lockq[i]].cancel = "waiter"

\* asyncio.Lock._wake_up_first(), called when the lock is not held: the first
\* task in the queue is given the lock and is scheduled, unless its wait is
\* over already, by a grant or by a cancellation
WakeUpFirst(w, p) ==
    LET pl == w.pools[p]
    IN  IF /\ pl.holder = 0
           /\ pl.lockq # <<>>
           /\ w.task[Head(pl.lockq)].sub \in LockWaits
           /\ w.task[Head(pl.lockq)].cancel = ""
        THEN [w EXCEPT !.task[Head(pl.lockq)].sub =
                           CASE @ = "lock"    -> "granted"
                             [] @ = "relock"  -> "regranted"
                             [] @ = "crelock" -> "cregranted",
                       !.ready = Append(@, Head(pl.lockq))]
        ELSE w

\* asyncio.Condition.notify(): the first task that waits on the condition is
\* woken and is scheduled
Notify(w, p) ==
    LET pl == w.pools[p]
    IN  IF pl.condq # <<>>
        THEN [w EXCEPT !.pools[p].condq = Tail(@),
                       !.task[Head(pl.condq)].sub = "notified",
                       !.ready = Append(@, Head(pl.condq))]
        ELSE w

\* the sessions of free whose place is in alive, in order
RECURSIVE Keep(_, _, _)
Keep(free, alive, i) ==
    IF i > Len(free) THEN <<>>
    ELSE (IF i \in alive THEN <<free[i]>> ELSE <<>>) \o Keep(free, alive, i + 1)

\* the free sessions of pool p that a call may find alive
LiveSets(p) ==
    IF p = NoPool THEN {{}} ELSE SUBSET (1..Len(pools[p].free))

\* Pool._acquire with the lock of the condition taken: _fill_free_pool drops
\* the free sessions whose server side has gone; the oldest free session is
\* checked out; with none free a new one is connected, the lock held (fewer
\* tasks run than the pool's maxsize, so that a new session may always be
\* connected)
AcquireLocked(w, t, alive) ==
    LET p    == w.task[t].apool
        live == Keep(w.pools[p].free, alive, 1)
    IN  IF live # <<>>
        THEN WakeUpFirst(
               [w EXCEPT !.pools[p].free = Tail(live),
                         !.pools[p].used = @ + 1,
                         !.task[t] = [w.task[t] EXCEPT
                                         !.pc = "execute", !.sub = "",
                                         !.conn = Some(Head(live))]], p)
        ELSE [w EXCEPT !.pools[p].free = <<>>,
                       !.pools[p].holder = t,
                       !.task[t] = [w.task[t] EXCEPT !.pc = "acquire",
                                                     !.sub = "connect"]]

\* a slip: execute_query does not call connect() first
StartQueryNoConnect(w, t, tk, stage, query, alive) ==
    LET p  == w.dbc.pool
        tq == [tk EXCEPT !.stage = stage, !.query = query, !.nread = 0,
                         !.conn = Absent, !.apool = p, !.sub = ""]
    IN  IF p = NoPool
        THEN Advance(w, t, [tq EXCEPT !.pc = "acquire", !.sub = "connect"])
        ELSE IF w.pools[p].closing
        THEN Advance(Ended(w, QueryEnd(tq, "acquire failed", <<>>,
                                       ClosedPoolError)), t,
                     Caught(tq, ClosedPoolError))
        ELSE IF ~LockFree(w, p)
        THEN [w EXCEPT !.task[t] = [tq EXCEPT !.pc = "acquire", !.sub = "lock"],
                       !.pools[p].lockq = Append(@, t)]
        ELSE AcquireLocked([w EXCEPT !.task[t] = tq], t, alive)

\* execute_query up to its first await (server.py 137-140): connect() awaits
\* create_pool when self.pool is None; otherwise self.pool.acquire() is
\* entered, which raises at once on a pool that is closing, waits for the
\* lock of the pool's condition when it is taken, and otherwise checks a
\* session out or starts to connect one
StartQuery(w, t, tk, stage, query, alive) ==
    LET p  == w.dbc.pool
        tq == [tk EXCEPT !.stage = stage, !.query = query, !.nread = 0,
                         !.conn = Absent, !.apool = p, !.sub = ""]
    IN  IF p = NoPool
        THEN Advance(w, t, [tq EXCEPT !.pc = "create_pool",
                                      !.cargs = ConnArgs(w.dbc)])
        ELSE IF w.pools[p].closing
        THEN Advance(Ended(w, QueryEnd(tq, "acquire failed", <<>>,
                                       ClosedPoolError)), t,
                     Caught(tq, ClosedPoolError))
        ELSE IF ~LockFree(w, p)
        THEN [w EXCEPT !.task[t] = [tq EXCEPT !.pc = "acquire", !.sub = "lock"],
                       !.pools[p].lockq = Append(@, t)]
        ELSE AcquireLocked([w EXCEPT !.task[t] = tq], t, alive)

\* a slip: a session the library has closed stays in the pool's used set
ReleaseOpenOnly(pls, p, db, closed) ==
    IF closed THEN pls
    ELSE [pls EXCEPT ![p].used = @ - 1,
                     ![p].free = IF pls[p].closing THEN @ ELSE Append(@, db)]

\* Pool.release(conn), called by the exit of "async with
\* self.pool.acquire() as conn" (server.py 140) on a path that raised or
\* returned: the session leaves the used set; one that is still open goes
\* back to the free ones, or is closed when the pool is closing
ExitAcquire(pls, p, db, closed) ==
    [pls EXCEPT ![p].used = @ - 1,
                ![p].free = IF closed \/ pls[p].closing THEN @ ELSE Append(@, db)]

\* a slip: the first row is dropped when the rows are copied
RowDictsSkipFirst(description, fetched) ==
    IF description /\ fetched # <<>> THEN Tail(fetched) ELSE <<>>

\* server.py 143-148: the rows as dicts when the cursor has a description,
\* the empty list otherwise
QueryResults(description, fetched) ==
    IF description THEN [i \in 1..Len(fetched) |-> fetched[i]] ELSE <<>>

\* a slip: the USE statement is sent before the guard is consulted
PlanUseBeforeGuard(query, database) ==
    IF database # <<>> THEN "use"
    ELSE IF ~IsAllowed(query) THEN "reject" ELSE "main"

\* execute_sql, server.py 286-297: what the call does first
ExecuteSqlPlan(query, database) ==
    IF ~IsAllowed(query) THEN "reject"
    ELSE IF database # <<>> THEN "use" ELSE "main"

\* what a tool does with the rows execute_query returned, up to its next
\* await or its return
Continue(w, t, tk, results, alive) ==
    CASE tk.tool = "list_databases" ->
           Advance(w, t,
                   IF MissingKey(results, <<ColDatabase>>) = Absent
                   THEN Finish(tk, ListDatabasesText(results))
                   ELSE Caught(tk, KeyErrorText(ColDatabase)))
      [] tk.tool = "list_tables" ->
           Advance(w, t,
                   IF \E i \in 1..Len(results) : results[i] = <<>>
                   THEN Caught(tk, IndexErrorText)
                   ELSE Finish(tk, ListTablesText(results, tk.arg_database)))
      [] tk.tool = "get_table_schema" /\ tk.stage = "main" ->
           IF results = <<>>
           THEN Advance(w, t, Finish(tk, TableNotFound(tk.arg_table)))
           ELSE IF MissingKey(results, SchemaKeys) # Absent
           THEN Advance(w, t,
                        Caught(tk, KeyErrorText(MissingKey(results, SchemaKeys)[1])))
           ELSE StartQuery(
                  w, t,
                  [tk EXCEPT !.schema_info = SchemaText(tk.arg_table, results)],
                  "status", StatusQuery(tk.arg_table, tk.arg_database), alive)
      [] tk.tool = "get_table_schema" /\ tk.stage = "status" ->
           Advance(w, t, Finish(tk, tk.schema_info \o StatusText(results)))
      [] tk.tool = "execute_sql" /\ tk.stage = "use" ->
           StartQuery(w, t, tk, "main", tk.arg_query, alive)
      [] tk.tool = "execute_sql" /\ tk.stage = "main" ->
           Advance(w, t, Finish(tk, FormatResults(results)))

\* the exception leaves execute_query, which has ended as q says: the tool
\* returns its text, or is cancelled
Raise(w, t, tk, q) ==
    Advance(Ended(w, q), t,
            IF q.exit = "cancelled" THEN Cancelled(tk) ELSE Caught(tk, q.cause))

\* the "async with" blocks of execute_query (server.py 140-141) are left, by
\* a return or by an exception: the session is released.  When the library
\* has closed the session, release() has nothing to await and the exception
\* goes on in the same step; otherwise release() starts the pool's _wakeup()
\* task and the exit of the block awaits it
LeaveBlocks(w, t, db, closed, exit, results, cause) ==
    LET tk == w.task[t]
        w1 == [w EXCEPT !.pools = ExitAcquire(@, tk.apool, db, closed)]
    IN  IF closed
        THEN Raise(w1, t, [tk EXCEPT !.conn = Absent],
                   QueryEnd(tk, exit, results, cause))
        ELSE [w1 EXCEPT
                !.task[t] = [tk EXCEPT
                               !.pc = "release", !.sub = "new", !.conn = Absent,
                               !.pend = Some([exit |-> exit, cause |-> cause,
                                              results |-> results,
                                              conn |-> tk.conn])],
                !.ready = Append(@, t)]

\* a call starts on the first idle task
Begin(t) ==
    /\ task[t].pc = "idle"
    /\ \A u \in Tasks : u < t => task[u].pc # "idle"
    /\ budget > 0
    /\ budget' = budget - 1

NewCall(tool) == [IdleTask EXCEPT !.tool = tool]

\* ------------------------------------------------------------------------
\* Initial state: the module has been imported
\* ------------------------------------------------------------------------
InitProgram ==
    /\ dotenv = Absent
    /\ config = ConfigOf(environ)
    /\ db_connection = Gateway(config)
    /\ pools = <<>>
    /\ task = [t \in Tasks |-> IdleTask]
    /\ ready = <<>>
    /\ event = NoEvent
    /\ envChanges = 0
    /\ rendered = <<>>

Init ==
    /\ environ = EnvUnset
    /\ InitProgram
    /\ budget = MaxCalls
    /\ cancels = 0
    /\ stmt = <<>>
    /\ verdict = "none"
    /\ resultset = <<>>

\* ------------------------------------------------------------------------
\* The environment of the process
\* ------------------------------------------------------------------------
SetEnviron(e) ==
    /\ envChanges < MaxEnvChanges
    /\ e # environ
    /\ environ' = e
    /\ envChanges' = envChanges + 1
    /\ event' = NoEvent
    /\ UNCHANGED <<dotenv, config, db_connection, pools, task, ready, budget,
                   cancels, stmt, verdict, resultset, rendered>>

WriteDotenv(f) ==
    /\ envChanges < MaxEnvChanges
    /\ f # dotenv
    /\ dotenv' = f
    /\ envChanges' = envChanges + 1
    /\ event' = NoEvent
    /\ UNCHANGED <<environ, config, db_connection, pools, task, ready, budget,
                   cancels, stmt, verdict, resultset, rendered>>

\* ------------------------------------------------------------------------
\* Tool calls, up to their first await
\* ------------------------------------------------------------------------
Rest == <<dotenv, envChanges, cancels, stmt, verdict, resultset, rendered>>

QueryTool(t, tk, stage, query) ==
    /\ Begin(t)
    /\ \E alive \in LiveSets(db_connection.pool) :
          Commit(StartQuery(World, t, tk, stage, query, alive), t)
    /\ UNCHANGED Rest

ListDatabases(t) ==
    QueryTool(t, NewCall("list_databases"), "main", ShowDatabases)

ListTables(t, database) ==
    QueryTool(t, [NewCall("list_tables") EXCEPT !.arg_database = database],
              "main",
              IF database # <<>> THEN ShowTablesFrom(database) ELSE ShowTables)

GetTableSchema(t, table_name, database) ==
    QueryTool(t, [NewCall("get_table_schema") EXCEPT
                      !.arg_table = table_name, !.arg_database = database],
              "main", Describe(FullTableName(table_name, database)))

ExecuteSql(t, query, database) ==
    LET tk   == [NewCall("execute_sql") EXCEPT
                    !.arg_query = query, !.arg_database = database]
        plan == ExecuteSqlPlan(query, database)
    IN  /\ Begin(t)
        /\ \E alive \in LiveSets(db_connection.pool) :
              Commit(CASE plan = "reject" ->
                            Advance(World, t, Finish(tk, GuardRejection))
                       [] plan = "use" ->
                            StartQuery(World, t, tk, "use", UseQuery(database),
                                       alive)
                       [] plan = "main" ->
                            StartQuery(World, t, tk, "main", query, alive),
                     t)
        /\ UNCHANGED Rest

\* a slip: the handle is cleared before the configuration is reloaded, so it
\* is cleared also when the reload raises
ReloadClearFirst(w, t, tk) ==
    LET r == LoadConfiguration(w.environ, dotenv, w.config)
    IN  Advance([w EXCEPT !.environ = r.environ,
                          !.config = r.config,
                          !.load = Some([ok |-> r.ok, error |-> r.error]),
                          !.dbc = IF r.ok THEN Gateway(r.config)
                                  ELSE [@ EXCEPT !.pool = NoPool]],
                t, IF r.ok THEN Finish(tk, ReloadConfirmation)
                   ELSE Caught(tk, r.error))

\* reload_config once config_manager.reload() has ended as r, server.py
\* 164-179: the parameters are assigned and the handle is cleared when it
\* returned, and the error text is returned when it raised
ReloadLoaded(w, t, tk, r) ==
    Advance([w EXCEPT !.environ = r.environ,
                      !.config = r.config,
                      !.load = Some([ok |-> r.ok, error |-> r.error]),
                      !.dbc = IF r.ok THEN Gateway(r.config) ELSE @],
            t, IF r.ok THEN Finish(tk, ReloadConfirmation)
               ELSE Caught(tk, r.error))

\* reload_config after db_connection.close() has returned, server.py 163-179
ReloadAfterClose(w, t, tk) ==
    ReloadLoaded(w, t, tk, LoadConfiguration(w.environ, dotenv, w.config))

\* a slip: the pool is terminated, not drained: the wait returns at once
WaitLoopNoDrain(w, t) ==
    LET p == w.task[t].apool
    IN  ReloadAfterClose(WakeUpFirst([w EXCEPT !.pools[p].closed = TRUE], p),
                         t, w.task[t])

\* the loop of Pool.wait_closed() with the lock of the condition taken:
\* while a session is checked out the task waits on the condition, giving
\* the lock up; with none the pool is closed, and reload_config goes on to
\* its end
WaitLoop(w, t) ==
    LET p == w.task[t].apool
    IN  IF w.pools[p].used > 0
        THEN WakeUpFirst(
               [w EXCEPT !.pools[p].condq = Append(@, t),
                         !.task[t] = [w.task[t] EXCEPT !.pc = "wait_closed",
                                                       !.sub = "cond"]], p)
        ELSE ReloadAfterClose(WakeUpFirst([w EXCEPT !.pools[p].closed = TRUE], p),
                              t, w.task[t])

\* MariaDBConnection.close(), server.py 150-154, on a pool: Pool.close()
\* marks the pool as closing; Pool.wait_closed() returns at once on a closed
\* pool, and otherwise closes the free sessions and takes the lock of the
\* condition, for which it may have to wait
ClosePool(w, t) ==
    LET p  == w.task[t].apool
        w1 == [w EXCEPT !.pools[p].closing = TRUE, !.pools[p].free = <<>>]
    IN  IF w.pools[p].closed THEN ReloadAfterClose(w, t, w.task[t])
        ELSE IF ~LockFree(w, p)
        THEN [w1 EXCEPT !.pools[p].lockq = Append(@, t),
                        !.task[t] = [w.task[t] EXCEPT !.pc = "wait_closed",
                                                      !.sub = "lock"]]
        ELSE WaitLoop(w1, t)

\* a slip: close() does not test self.pool, so that with no pool the call of
\* None.close() raises and reload_config returns the error
ReloadConfigNoTest(t) ==
    LET tk == [NewCall("reload_config") EXCEPT !.apool = db_connection.pool]
        w  == [World EXCEPT !.task[t] = tk]
    IN  /\ Begin(t)
        /\ Commit(IF tk.apool = NoPool
                  THEN Advance(w, t, Caught(tk, <<SQ, "NoneType", SQ,
                                                 " object has no attribute ",
                                                 SQ, "close", SQ>>))
                  ELSE ClosePool(w, t), t)
        /\ UNCHANGED Rest

\* reload_config up to its first await, server.py 159-161: with no pool, or
\* with a pool that has no session checked out and whose lock is free, it
\* runs to its end
ReloadConfig(t) ==
    LET tk == [NewCall("reload_config") EXCEPT !.apool = db_connection.pool]
        w  == [World EXCEPT !.task[t] = tk]
    IN  /\ Begin(t)
        /\ Commit(IF tk.apool = NoPool THEN ReloadAfterClose(w, t, tk)
                  ELSE ClosePool(w, t), t)
        /\ UNCHANGED Rest

\* the task that is first in the event loop's queue runs
Runs(t) == ready # <<>> /\ Head(ready) = t

Popped == [World EXCEPT !.ready = Tail(@)]

\* wait_closed() is resumed, notified on the condition: it takes the lock
\* again, for which it may have to wait, and goes round its loop
WaitClosedWoken(t) ==
    LET tk == task[t]
        p  == tk.apool
    IN  /\ Runs(t)
        /\ tk.pc = "wait_closed"
        /\ tk.sub = "notified"
        /\ tk.cancel = ""
        /\ Commit(IF ~LockFree(World, p)
                  THEN [Popped EXCEPT !.pools[p].lockq = Append(@, t),
                                      !.task[t].sub = "relock"]
                  ELSE WaitLoop(Popped, t), t)
        /\ UNCHANGED <<budget, Rest>>

\* ------------------------------------------------------------------------
\* execute_query resumed at its awaits
\* ------------------------------------------------------------------------
ConnectError == <<"(2003, \"Can not connect to MySQL server\")">>
LostError    == <<"(2013, \"Lost connection to MySQL server during query\")">>

\* create_pool returned: self.pool is assigned, and acquire() checks out the
\* session the pool was created with
CreatePoolDone(t) ==
    LET tk == task[t]
        h  == Len(pools) + 1
    IN  /\ tk.pc = "create_pool"
        /\ tk.cancel = ""
        /\ Commit(AcquireLocked(
                    [World EXCEPT
                        !.pools = Append(@, NewPool(tk.cargs)),
                        !.dbc = [@ EXCEPT !.pool = h],
                        !.task[t] = [tk EXCEPT !.apool = h, !.cargs = NoArgs]],
                    t, 1..minsize), t)
        /\ UNCHANGED <<budget, Rest>>

\* a slip: a failed create_pool is tried again
CreatePoolRetry(t) ==
    LET tk == task[t]
    IN  /\ tk.pc = "create_pool"
        /\ tk.cancel = ""
        /\ Commit(Ended(World, QueryEnd(tk, "connect failed", <<>>,
                                            ConnectError)), t)
        /\ UNCHANGED <<budget, Rest>>

\* create_pool raised: the server is unreachable or rejects the credentials
CreatePoolFail(t) ==
    LET tk == task[t]
    IN  /\ tk.pc = "create_pool"
        /\ tk.cancel = ""
        /\ Commit(Raise(World, t, tk,
                        QueryEnd(tk, "connect failed", <<>>, ConnectError)), t)
        /\ UNCHANGED <<budget, Rest>>

\* the session acquire() was connecting is there: it joins the free ones,
\* the condition is notified, the oldest free session is checked out and
\* the lock is given up
AcquireDone(t) ==
    LET tk == task[t]
        p  == tk.apool
        w1 == Notify([World EXCEPT !.pools[p].free =
                                       Append(@, pools[p].args.db)], p)
        db == Head(w1.pools[p].free)
    IN  /\ tk.pc = "acquire"
        /\ tk.sub = "connect"
        /\ tk.cancel = ""
        /\ Commit(WakeUpFirst(
                    [w1 EXCEPT !.pools[p].holder = 0,
                               !.pools[p].free = Tail(@),
                               !.pools[p].used = @ + 1,
                               !.task[t] = [tk EXCEPT !.pc = "execute",
                                                      !.sub = "",
                                                      !.conn = Some(db)]], p), t)
        /\ UNCHANGED <<budget, Rest>>

\* connecting the session raised: acquire() gives the lock up and raises
AcquireFail(t) ==
    LET tk == task[t]
        p  == tk.apool
    IN  /\ tk.pc = "acquire"
        /\ tk.sub = "connect"
        /\ tk.cancel = ""
        /\ Commit(Raise(WakeUpFirst([World EXCEPT !.pools[p].holder = 0], p),
                        t, tk,
                        QueryEnd(tk, "acquire failed", <<>>, ConnectError)), t)
        /\ UNCHANGED <<budget, Rest>>

\* Pool._wakeup() with the lock of the condition taken: one task that waits
\* on the condition is notified, the lock is given up and the _wakeup() task
\* ends, which schedules the task that awaits it
WakeupLocked(w, t) ==
    LET w1 == WakeUpFirst(Notify(w, w.task[t].apool), w.task[t].apool)
    IN  [w1 EXCEPT !.task[t].sub = "done", !.ready = Append(@, t)]

\* the _wakeup() task of a release runs: it takes the lock of the condition,
\* for which it may have to wait
PoolWakeup(t) ==
    LET tk == task[t]
        p  == tk.apool
    IN  /\ Runs(t)
        /\ tk.pc = "release"
        /\ tk.sub = "new"
        /\ tk.cancel = ""
        /\ Commit(IF ~LockFree(World, p)
                  THEN [Popped EXCEPT !.pools[p].lockq = Append(@, t),
                                      !.task[t].sub = "lock"]
                  ELSE WakeupLocked(Popped, t), t)
        /\ UNCHANGED <<budget, Rest>>

\* the task that was given the lock of the condition runs, and goes on where
\* it waited for it: in acquire(), in wait_closed() or in _wakeup(); a
\* notified Condition.wait() returns to the loop of wait_closed(), and a
\* cancelled one that has the lock again raises CancelledError: wait_closed()
\* gives the lock up and reload_config is cancelled
LockGranted(t) ==
    LET tk == task[t]
        p  == tk.apool
        w  == [Popped EXCEPT !.pools[p].lockq = Without(@, t)]
    IN  /\ Runs(t)
        /\ tk.sub \in {"granted", "regranted", "cregranted"}
        /\ tk.cancel = ""
        /\ \E alive \in LiveSets(p) :
              Commit(CASE tk.sub = "cregranted" ->
                            Advance(WakeUpFirst(w, p), t, Cancelled(tk))
                       [] tk.sub = "regranted" ->
                            WaitLoop(w, t)
                       [] tk.sub = "granted" /\ tk.pc = "acquire" ->
                            AcquireLocked(w, t, alive)
                       [] tk.sub = "granted" /\ tk.pc = "wait_closed" ->
                            WaitLoop(w, t)
                       [] tk.sub = "granted" /\ tk.pc = "release" ->
                            WakeupLocked(w, t), t)
        /\ UNCHANGED <<budget, Rest>>

\* the exit of the block has ended and the exception leaves execute_query:
\* the tool returns its text, or is cancelled
RaiseInQuery(t) ==
    LET tk == task[t]
        p  == tk.pend[1]
    IN  /\ Runs(t)
        /\ tk.pc = "release"
        /\ tk.sub = "done"
        /\ tk.cancel = ""
        /\ p.exit # "return"
        /\ Commit(Raise(Popped, t, [tk EXCEPT !.pend = Absent],
                        QueryEnd([tk EXCEPT !.conn = p.conn], p.exit, <<>>,
                                 p.cause)), t)
        /\ UNCHANGED <<budget, Rest>>

\* the exit of the block has ended and execute_query returns the rows to the
\* tool, which runs to its next await
ReturnFromQuery(t) ==
    LET tk == task[t]
        p  == tk.pend[1]
    IN  /\ Runs(t)
        /\ tk.pc = "release"
        /\ tk.sub = "done"
        /\ tk.cancel = ""
        /\ p.exit = "return"
        /\ \E alive \in LiveSets(db_connection.pool) :
              Commit(Continue(Ended(Popped,
                                    QueryEnd([tk EXCEPT !.conn = p.conn],
                                             "return", p.results, <<>>)),
                              t, [tk EXCEPT !.pend = Absent, !.sub = ""],
                              p.results, alive), t)
        /\ UNCHANGED <<budget, Rest>>

\* cursor.execute raised an error of the server: the session stays open
ExecuteError(t) ==
    LET tk == task[t]
        r  == Server(tk.query, tk.conn[1])
    IN  /\ tk.pc = "execute"
        /\ tk.cancel = ""
        /\ ~r.ok
        /\ Commit(LeaveBlocks(World, t, tk.conn[1], FALSE, "execute failed",
                              <<>>, r.cause), t)
        /\ UNCHANGED <<budget, Rest>>

\* cursor.execute raised because the connection was lost; the library may
\* have closed the session as it raised
ExecuteFail(t) ==
    /\ task[t].pc = "execute"
    /\ task[t].cancel = ""
    /\ \E closed \in BOOLEAN :
          Commit(LeaveBlocks(World, t, task[t].conn[1], closed,
                             "execute failed", <<>>, LostError), t)
    /\ UNCHANGED <<budget, Rest>>

\* cursor.execute returned and cursor.description is None
ExecuteNoResult(t) ==
    LET tk == task[t]
        r  == Server(tk.query, tk.conn[1])
    IN  /\ tk.pc = "execute"
        /\ tk.cancel = ""
        /\ r.ok /\ ~r.description
        /\ Commit(LeaveBlocks(World, t, SelectedAfter(tk.query, tk.conn[1]),
                              FALSE, "return", QueryResults(FALSE, <<>>),
                              <<>>), t)
        /\ UNCHANGED <<budget, Rest>>

\* cursor.execute returned with a description: fetchall is awaited
ExecuteResult(t) ==
    LET tk == task[t]
        r  == Server(tk.query, tk.conn[1])
    IN  /\ tk.pc = "execute"
        /\ tk.cancel = ""
        /\ r.ok /\ r.description
        /\ Commit([World EXCEPT !.task[t] = [tk EXCEPT !.pc = "fetchall",
                                                       !.nread = 0]], t)
        /\ UNCHANGED <<budget, Rest>>

\* one more row of the result set has arrived
FetchRow(t) ==
    LET tk == task[t]
        r  == Server(tk.query, tk.conn[1])
    IN  /\ tk.pc = "fetchall"
        /\ tk.cancel = ""
        /\ tk.nread < Len(r.rows)
        /\ Commit([World EXCEPT !.task[t].nread = @ + 1], t)
        /\ UNCHANGED <<budget, Rest>>

\* fetchall returned every row
FetchDone(t) ==
    LET tk == task[t]
        r  == Server(tk.query, tk.conn[1])
    IN  /\ tk.pc = "fetchall"
        /\ tk.cancel = ""
        /\ tk.nread = Len(r.rows)
        /\ Commit(LeaveBlocks(World, t, tk.conn[1], FALSE, "return",
                              QueryResults(TRUE, SubSeq(r.rows, 1, tk.nread)),
                              <<>>), t)
        /\ UNCHANGED <<budget, Rest>>

\* fetchall raised before the last row; the library may have closed the
\* session as it raised
FetchFail(t) ==
    /\ task[t].pc = "fetchall"
    /\ task[t].cancel = ""
    /\ \E closed \in BOOLEAN :
          Commit(LeaveBlocks(World, t, task[t].conn[1], closed,
                             "fetch failed", <<>>, LostError), t)
    /\ UNCHANGED <<budget, Rest>>

\* Task.cancel(), called by the dispatcher on a suspended call: no code of
\* the call runs.  The future the task awaits is cancelled and the task is
\* scheduled; when that future is done already the task, which is scheduled,
\* is marked and will be cancelled as it runs.  At the exit of the "async
\* with" what the call awaits is the pool's _wakeup() task, and that task is
\* the one cancelled.  A wait on the condition that is cancelled can no
\* longer be notified
Cancel(t) ==
    LET tk == task[t]
        p  == tk.apool
    IN  /\ tk.pc \in Suspended
        /\ tk.cancel = ""
        /\ cancels > 0
        /\ cancels' = cancels - 1
        /\ Commit(IF tk.sub \in {"granted", "regranted", "cregranted",
                                 "notified", "new", "done"}
                  THEN [World EXCEPT !.task[t].cancel = "must"]
                  ELSE IF tk.sub = "cond"
                  THEN [World EXCEPT !.task[t].cancel = "waiter",
                                     !.pools[p].condq = Without(@, t),
                                     !.ready = Append(@, t)]
                  ELSE [World EXCEPT !.task[t].cancel = "waiter",
                                     !.ready = Append(@, t)], t)
        /\ UNCHANGED <<budget, dotenv, envChanges, stmt, verdict, resultset,
                       rendered>>

\* asyncio.Lock.acquire() is left by CancelledError: the task leaves the
\* queue of the lock and, when the lock is not held, the first task in the
\* queue is given it
LeaveLock(w, t) ==
    LET p == w.task[t].apool
    IN  WakeUpFirst([w EXCEPT !.pools[p].lockq = Without(@, t)], p)

\* asyncio.Condition.wait() is left by CancelledError, raised while it
\* waited for the notification or for the lock after it: it takes the lock
\* again before it raises, for which the task may have to wait; with the
\* lock wait_closed() is left, the lock is given up and reload_config is
\* cancelled
Reacquire(w, t) ==
    LET p == w.task[t].apool
    IN  IF LockFree(w, p)
        THEN Advance(WakeUpFirst(w, p), t, Cancelled(w.task[t]))
        ELSE [w EXCEPT !.pools[p].lockq = Append(@, t),
                       !.task[t].sub = "crelock"]

\* the cancelled task runs and CancelledError is raised at its await; it
\* passes "except Exception".  A task that waited for the lock leaves its
\* queue, one that held it gives it up; a session that is held is released,
\* and when the library has not closed it the exit of the "async with"
\* awaits the pool's _wakeup() task before CancelledError goes on.  When it
\* is the _wakeup() task that is cancelled, it ends without notifying the
\* condition and the call that awaits it is scheduled, to be cancelled as
\* it runs
CancelDelivered(t) ==
    LET tk == task[t]
        p  == tk.apool
        w  == [Popped EXCEPT !.task[t].cancel = ""]
        q  == QueryEnd(IF tk.pend = Absent THEN tk
                       ELSE [tk EXCEPT !.conn = tk.pend[1].conn],
                       "cancelled", <<>>, <<"CancelledError">>)
    IN  /\ Runs(t)
        /\ tk.cancel # ""
        /\ \E closed \in IF tk.pc \in {"execute", "fetchall"}
                         THEN BOOLEAN ELSE {FALSE} :
              Commit(CASE tk.pc = "create_pool" ->
                            Raise(w, t, w.task[t], q)
                       [] tk.pc = "acquire" /\ tk.sub = "connect" ->
                            Raise(WakeUpFirst([w EXCEPT !.pools[p].holder = 0], p),
                                  t, w.task[t], q)
                       [] tk.pc = "acquire" /\ tk.sub # "connect" ->
                            Raise(LeaveLock(w, t), t, w.task[t], q)
                       [] tk.pc \in {"execute", "fetchall"} ->
                            LeaveBlocks(w, t, tk.conn[1], closed, "cancelled",
                                        <<>>, <<"CancelledError">>)
                       [] tk.pc = "release" /\ tk.sub = "done" ->
                            Raise(w, t, [w.task[t] EXCEPT !.pend = Absent], q)
                       [] tk.pc = "release" /\ tk.sub # "done" ->
                            [(IF tk.sub = "new" THEN w ELSE LeaveLock(w, t))
                                EXCEPT !.task[t].sub = "done",
                                       !.task[t].cancel = "must",
                                       !.ready = Append(@, t)]
                       [] tk.pc = "wait_closed"
                             /\ tk.sub \in {"lock", "granted"} ->
                            Advance(LeaveLock(w, t), t, Cancelled(tk))
                       [] tk.pc = "wait_closed"
                             /\ tk.sub \in {"cond", "notified"} ->
                            Reacquire(w, t)
                       [] tk.pc = "wait_closed"
                             /\ tk.sub \in {"relock", "regranted", "crelock",
                                            "cregranted"} ->
                            Reacquire(LeaveLock(w, t), t), t)
        /\ UNCHANGED <<budget, Rest>>

DatabaseArgs == {<<>>, DbShop}
TableArgs == {<<"items">>}

\* Tasks call list_databases and reload_config; no call is cancelled, the
\* .env file is left as it is and the ports of the environment are short
Next ==
    \/ \E e \in Environments \ {EnvLongPort} : SetEnviron(e)
    \/ \E t \in Tasks : ListDatabases(t)
    \/ \E t \in Tasks : ReloadConfig(t)
    \/ \E t \in Tasks : WaitClosedWoken(t)
    \/ \E t \in Tasks : CreatePoolDone(t)
    \/ \E t \in Tasks : CreatePoolFail(t)
    \/ \E t \in Tasks : AcquireDone(t)
    \/ \E t \in Tasks : AcquireFail(t)
    \/ \E t \in Tasks : ExecuteFail(t)
    \/ \E t \in Tasks : ExecuteResult(t)
    \/ \E t \in Tasks : FetchRow(t)
    \/ \E t \in Tasks : FetchDone(t)
    \/ \E t \in Tasks : FetchFail(t)
    \/ \E t \in Tasks : PoolWakeup(t)
    \/ \E t \in Tasks : LockGranted(t)
    \/ \E t \in Tasks : RaiseInQuery(t)
    \/ \E t \in Tasks : ReturnFromQuery(t)

Spec == Init /\ [][Next]_vars

\* Tasks call list_databases and reload_config while the server answers every
\* request and the environment stays as it is
InitQuiet ==
    /\ environ = EnvUnset
    /\ InitProgram
    /\ budget = MaxQuietCalls
    /\ cancels = 0
    /\ stmt = <<>>
    /\ verdict = "none"
    /\ resultset = <<>>

NextQuiet ==
    \/ \E t \in Tasks : ListDatabases(t)
    \/ \E t \in Tasks : ReloadConfig(t)
    \/ \E t \in Tasks : WaitClosedWoken(t)
    \/ \E t \in Tasks : CreatePoolDone(t)
    \/ \E t \in Tasks : AcquireDone(t)
    \/ \E t \in Tasks : ExecuteResult(t)
    \/ \E t \in Tasks : FetchRow(t)
    \/ \E t \in Tasks : FetchDone(t)
    \/ \E t \in Tasks : PoolWakeup(t)
    \/ \E t \in Tasks : LockGranted(t)
    \/ \E t \in Tasks : ReturnFromQuery(t)

SpecQuiet == InitQuiet /\ [][NextQuiet]_vars

\* Callers call any of the five tools and the dispatcher cancels calls; the
\* process starts with none of the keys set, and the only change of
\* os.environ is to a port that is no number
InitTools ==
    /\ environ = EnvUnset
    /\ InitProgram
    /\ budget = MaxToolCalls
    /\ cancels = MaxToolCancels
    /\ stmt = <<>>
    /\ verdict = "none"
    /\ resultset = <<>>

NextTools ==
    \/ SetEnviron(EnvBadPort)
    \/ \E t \in Callers : ListDatabases(t)
    \/ \E t \in Callers, d \in DatabaseArgs : ListTables(t, d)
    \/ \E t \in Callers, n \in TableArgs, d \in DatabaseArgs :
          GetTableSchema(t, n, d)
    \/ \E t \in Callers, q \in Statements, d \in DatabaseArgs :
          ExecuteSql(t, q, d)
    \/ \E t \in Callers : ReloadConfig(t)
    \/ \E t \in Callers : CreatePoolDone(t)
    \/ \E t \in Callers : CreatePoolFail(t)
    \/ \E t \in Callers : AcquireDone(t)
    \/ \E t \in Callers : AcquireFail(t)
    \/ \E t \in Callers : ExecuteError(t)
    \/ \E t \in Callers : ExecuteFail(t)
    \/ \E t \in Callers : ExecuteNoResult(t)
    \/ \E t \in Callers : ExecuteResult(t)
    \/ \E t \in Callers : FetchRow(t)
    \/ \E t \in Callers : FetchDone(t)
    \/ \E t \in Callers : FetchFail(t)
    \/ \E t \in Callers : WaitClosedWoken(t)
    \/ \E t \in Callers : PoolWakeup(t)
    \/ \E t \in Callers : LockGranted(t)
    \/ \E t \in Callers : RaiseInQuery(t)
    \/ \E t \in Callers : ReturnFromQuery(t)
    \/ \E t \in Callers : Cancel(t)
    \/ \E t \in Callers : CancelDelivered(t)

SpecTools == InitTools /\ [][NextTools]_vars

\* Clients call list_databases and reload_config on the shared gateway
InitClients ==
    /\ environ = EnvUnset
    /\ InitProgram
    /\ budget = MaxClientCalls
    /\ cancels = MaxClientCancels
    /\ stmt = <<>>
    /\ verdict = "none"
    /\ resultset = <<>>

NextClients ==
    \/ \E e \in Environments : SetEnviron(e)
    \/ \E f \in DotenvFiles : WriteDotenv(f)
    \/ \E t \in Clients : ListDatabases(t)
    \/ \E t \in Clients : ReloadConfig(t)
    \/ \E t \in Clients : WaitClosedWoken(t)
    \/ \E t \in Clients : CreatePoolDone(t)
    \/ \E t \in Clients : CreatePoolFail(t)
    \/ \E t \in Clients : AcquireDone(t)
    \/ \E t \in Clients : AcquireFail(t)
    \/ \E t \in Clients : ExecuteFail(t)
    \/ \E t \in Clients : ExecuteResult(t)
    \/ \E t \in Clients : FetchRow(t)
    \/ \E t \in Clients : FetchDone(t)
    \/ \E t \in Clients : FetchFail(t)
    \/ \E t \in Clients : PoolWakeup(t)
    \/ \E t \in Clients : LockGranted(t)
    \/ \E t \in Clients : RaiseInQuery(t)
    \/ \E t \in Clients : ReturnFromQuery(t)
    \/ \E t \in Clients : Cancel(t)
    \/ \E t \in Clients : CancelDelivered(t)

SpecClients == InitClients /\ [][NextClients]_vars

\* ------------------------------------------------------------------------
\* The guard on its own: a statement is drawn, then classified
\* ------------------------------------------------------------------------
KwDrop     == <<"D","R","O","P">>
KwInsert   == <<"I","N","S","E","R","T">>
KwUpdate   == <<"U","P","D","A","T","E">>
KwDelete   == <<"D","E","L","E","T","E">>
KwAlter    == <<"A","L","T","E","R">>
KwCreate   == <<"C","R","E","A","T","E">>
KwReplace  == <<"R","E","P","L","A","C","E">>
KwTruncate == <<"T","R","U","N","C","A","T","E">>
KwUse      == <<"U","S","E">>

ReadWords  == {KwSelect, KwShow, KwDescribe, KwDesc, KwExplain, KwWith}
WriteWords == {KwDrop, KwInsert, KwUpdate, KwDelete, KwAlter, KwCreate,
               KwReplace, KwTruncate, KwUse}

\* words that extend an allowed keyword, and words that stop short of one
LongerWords  == {w \o <<"X">> : w \in ReadWords} \cup
                {KwDesc \o <<"R">>, KwWith \o <<"D","R","A","W">>}
ShorterWords == {SubSeq(w, 1, Len(w) - 1) : w \in ReadWords} \cup {<<>>}

\* words written with the long s (U+017F), the dotless i (U+0131) and the
\* sharp s (U+00DF), which upper() turns into S, I and SS
ForeignWords ==
    {<<"<U+017F>","e","l","e","c","t">>, <<"<U+017F>","H","O","W">>,
     <<"d","e","<U+017F>","c">>, <<"w","<U+0131>","t","h">>,
     <<"<U+00DF>","e","l","e","c","t">>, <<"d","r","o","<U+00DF>">>}

GuardWords ==
    LET words == ReadWords \cup WriteWords \cup LongerWords \cup ShorterWords
    IN  words \cup {Lower(w) : w \in words} \cup {MixedCase(w) : w \in ReadWords}
              \cup ForeignWords

GuardLeads ==
    {<<>>, <<" ">>, <<"\n", "\t">>, <<"\f">>, <<"<U+00A0>", "<U+001C>">>,
     <<";">>, <<"(">>}

GuardTails == {<<>>, <<" ", "1">>, <<"1">>, <<"(", "1", ")">>, <<"\n">>,
               <<"<U+3000>">>,
               <<" ">> \o KwSelect, <<" ">> \o Lower(KwDrop)}

GuardInputs ==
    {l \o w \o e : l \in GuardLeads, w \in GuardWords, e \in GuardTails}

InitGuard ==
    /\ environ = EnvUnset
    /\ InitProgram
    /\ budget = 0
    /\ cancels = 0
    /\ stmt \in GuardInputs
    /\ verdict = "none"
    /\ resultset = <<>>

\* server.py 290 is false: the statement goes on to the executor
GuardAllows ==
    /\ verdict = "none"
    /\ IsAllowed(stmt)
    /\ verdict' = "allow"
    /\ UNCHANGED <<environ, dotenv, config, db_connection, pools, task, ready, event,
                   budget, envChanges, cancels, stmt, resultset, rendered>>

\* server.py 290-291: the rejection text is returned
GuardRejects ==
    /\ verdict = "none"
    /\ ~IsAllowed(stmt)
    /\ verdict' = "reject"
    /\ UNCHANGED <<environ, dotenv, config, db_connection, pools, task, ready, event,
                   budget, envChanges, cancels, stmt, resultset, rendered>>

NextGuard == GuardAllows \/ GuardRejects

SpecGuard == InitGuard /\ [][NextGuard]_vars

\* ------------------------------------------------------------------------
\* The formatter of execute_sql on its own
\* ------------------------------------------------------------------------

\* the rows of SELECT id, rows of SELECT id, name with a NULL name in the
\* even rows, and rows of which only the first has the second key
RowsOfShape(shape, n) ==
    [i \in 1..n |->
        CASE shape = "one" -> << <<ColId, IntV(i)>> >>
          [] shape = "two" ->
               << <<ColId, IntV(i)>>,
                  <<ColName, IF i % 2 = 0 THEN NullV ELSE StrV(<<"a","b">>)>> >>
          [] shape = "ragged" ->
               IF i = 1
               THEN << <<ColId, IntV(i)>>, <<ColName, StrV(<<"a">>)>> >>
               ELSE << <<ColId, IntV(i)>> >>]

RowShapes == {"one", "two", "ragged"}

FormatInputs == {RowsOfShape(s, n) : s \in RowShapes, n \in 0..MaxRows}

InitFormat ==
    /\ environ = EnvUnset
    /\ InitProgram
    /\ budget = 0
    /\ cancels = 0
    /\ stmt = <<>>
    /\ verdict = "none"
    /\ resultset \in FormatInputs

\* server.py 299-300: no rows, the fixed text is returned
FormatNoRows ==
    /\ rendered = <<>>
    /\ resultset = <<>>
    /\ rendered' = FormatResults(resultset)
    /\ UNCHANGED <<environ, dotenv, config, db_connection, pools, task, ready, event,
                   budget, envChanges, cancels, stmt, verdict, resultset>>

\* server.py 306-325: the table is returned
FormatTable ==
    /\ rendered = <<>>
    /\ resultset # <<>>
    /\ rendered' = FormatResults(resultset)
    /\ UNCHANGED <<environ, dotenv, config, db_connection, pools, task, ready, event,
                   budget, envChanges, cancels, stmt, verdict, resultset>>

NextFormat == FormatNoRows \/ FormatTable

SpecFormat == InitFormat /\ [][NextFormat]_vars

\* ========================================================================
\* Properties
\* ========================================================================
\* the characters of a keyword or an identifier
WordChars ==
    Letters \cup {DecimalDigits[1][i] : i \in 1..10} \cup {"_"}

RECURSIVE WordPrefix(_)
WordPrefix(s) ==
    IF s # <<>> /\ Head(s) \in WordChars
    THEN <<Head(s)>> \o WordPrefix(Tail(s)) ELSE <<>>

\* the first word of a statement, trimmed and case-folded
LeadingWord(s) == WordPrefix(Upper(Strip(s)))

\* C5 as claimed: the guard allows a statement exactly when its leading
\* keyword, trimmed and case-folded, is SELECT, SHOW, DESCRIBE, DESC, EXPLAIN
\* or WITH.
C5_GuardIsKeywordTest ==
    verdict # "none" =>
        (verdict = "allow" <=> LeadingWord(stmt) \in ReadWords)

\* C5 amended: the guard allows a statement exactly when its leading word,
\* trimmed and case-folded, begins with SELECT, SHOW, DESC, EXPLAIN or WITH;
\* a longer word such as SELECTX or DESCR passes as well.
C5_GuardIsPrefixTest ==
    verdict # "none" =>
        (verdict = "allow" <=>
            \E w \in {KwSelect, KwShow, KwDesc, KwExplain, KwWith} :
                StartsWith(LeadingWord(stmt), w))

\* an allowed statement with leading whitespace, in lower case, whose leading
\* word is longer than the keyword it begins with
C5_Witness ==
    /\ verdict = "allow"
    /\ stmt # <<>> /\ stmt[1] \in Whitespace
    /\ Upper(stmt) # stmt
    /\ LeadingWord(stmt) \notin ReadWords

OpenPools == {i \in 1..Len(pools) : ~pools[i].closing}

\* the execute_query calls that the last step ended
QueryEnds == {event.query[i] : i \in 1..Len(event.query)}

ReloadRunning == \E t \in Tasks : task[t].tool = "reload_config"

\* C1 as claimed: at most one constructed pool is open, and every constructed
\* pool is the one the gateway refers to or has been closed.
C1_OnePoolRetained ==
    /\ Cardinality(OpenPools) <= 1
    /\ \A i \in OpenPools : i = db_connection.pool

\* C2 as claimed: while a reload_config is between the start of its close and
\* the clearing of the handle, no connect() that starts begins to construct a
\* pool.
C2_ReloadSerializesCreation ==
    [][\A t \in Tasks :
          (task[t].pc = "idle" /\ task'[t].pc = "create_pool")
              => ~\E r \in Tasks : task[r].pc = "wait_closed"]_vars

\* C3 as claimed: when no reload_config is running and the gateway holds a
\* pool, the pool was constructed with the gateway's current parameters.
C3_PoolMatchesParameters ==
    (~ReloadRunning /\ db_connection.pool # NoPool)
        => pools[db_connection.pool].args = ConnArgs(db_connection)

\* C4: every session checked out of a pool is held by an execute_query that is
\* between its acquire and its exit; a query that has ended, however it
\* ended, holds none.  A cancelled query counts from the step in which
\* CancelledError is raised in it: until the event loop runs the cancelled
\* task it is still between its acquire and its exit.
C4_SessionsReleased ==
    /\ \A i \in 1..Len(pools) :
          pools[i].used =
              Cardinality({t \in Tasks : task[t].conn # Absent /\ task[t].apool = i})
    /\ \A t \in Tasks :
          task[t].conn # Absent => task[t].pc \in {"execute", "fetchall"}

\* a fetch failed after the first row, and the pool has no session checked out
C4_Witness ==
    \E q \in QueryEnds :
        /\ q.exit = "fetch failed"
        /\ q.nread > 0
        /\ pools[q.pool].used = 0

\* the statement is one the guard lets through (the amended C5)
ReadOnlyWord(q) ==
    \E w \in {KwSelect, KwShow, KwDesc, KwExplain, KwWith} :
        StartsWith(LeadingWord(q), w)

RejectedCall(c) == c.tool = "execute_sql" /\ ~ReadOnlyWord(c.arg_query)

\* C6: a call of execute_sql whose statement the guard rejects returns the
\* rejection text in the step it starts in: it constructs no pool, acquires
\* no session, executes nothing, and leaves the pool handle, the pools and
\* every task as they were, with or without a database argument.
C6_RejectedNeverExecutes ==
    [][/\ \A t \in Tasks : ~RejectedCall(task'[t])
       /\ (event'.call # Absent /\ RejectedCall(event'.call[1])) =>
             /\ event'.call[1].out = GuardRejection
             /\ event'.call[1].outcome = "returned"
             /\ event'.query = Absent
             /\ UNCHANGED <<db_connection, pools, task>>]_vars

\* a rejected statement was called with a database argument
C6_Witness ==
    /\ event.call # Absent
    /\ RejectedCall(event.call[1])
    /\ event.call[1].arg_database # <<>>
    /\ event.call[1].out = GuardRejection

\* C7 as claimed, at the states the claim is about: when a reload_config call
\* has just returned its text, a confirmation or an error, and no other
\* reload_config is running, the pool handle is empty or refers to a pool
\* that has not been closed, so that the next query constructs a pool.
C7_HandleEmptyOrOpen ==
    (/\ ~ReloadRunning
     /\ event.call # Absent
     /\ event.call[1].tool = "reload_config"
     /\ event.call[1].outcome = "returned")
        => \/ db_connection.pool = NoPool
           \/ ~pools[db_connection.pool].closing

ClaimedPrefix(tool) ==
    CASE tool = "list_databases"   -> "Error listing databases: "
      [] tool = "list_tables"      -> "Error listing tables: "
      [] tool = "get_table_schema" -> "Error getting table schema: "
      [] tool = "execute_sql"      -> "Error executing SQL: "
      [] tool = "reload_config"    -> "Error reloading configuration: "

Failures == {"connect failed", "acquire failed", "execute failed", "fetch failed"}

\* the caller cancelled a query that held a session while its statement was
\* executed or its rows were fetched; the query has ended and the pool has no
\* session checked out
C4_WitnessCancelled ==
    \E q \in QueryEnds :
        /\ q.exit = "cancelled"
        /\ q.conn # Absent
        /\ pools[q.pool].used = 0

\* C8: a step in which connecting, acquiring, executing or fetching failed in
\* a query, or in which config_manager.reload() raised, ends the call of the
\* tool, and the call does not raise: it returns a text that begins with the
\* failure prefix of its tool.
C8_FailuresBecomeText ==
    LET failure ==
            \/ \E q \in QueryEnds : q.exit \in Failures
            \/ event.load # Absent /\ ~event.load[1].ok
    IN  failure =>
            /\ event.call # Absent
            /\ event.call[1].outcome = "returned"
            /\ event.call[1].out # <<>>
            /\ event.call[1].out[1] = ClaimedPrefix(event.call[1].tool)

\* get_table_schema lost the connection while fetching and returned its text
C8_Witness ==
    /\ event.call # Absent
    /\ \E q \in QueryEnds : q.exit = "fetch failed"
    /\ event.call[1].tool = "get_table_schema"
    /\ event.call[1].out = <<"Error getting table schema: ">> \o LostError

\* config_manager.reload() raised on the port "abc" and reload_config
\* returned the text of the error
C8_WitnessBadPort ==
    /\ event.load # Absent
    /\ ~event.load[1].ok
    /\ event.call # Absent
    /\ event.call[1].tool = "reload_config"
    /\ event.call[1].outcome = "returned"
    /\ event.call[1].out = <<"Error reloading configuration: ">>
                               \o ValueErrorText(<<"a", "b", "c">>)

\* config_manager.reload() raised on a port of more digits than int() converts
\* and reload_config returned its text
C8_WitnessReload ==
    /\ event.load # Absent
    /\ ~event.load[1].ok
    /\ event.load[1].error = ExceedsLimitText(MaxStrDigits + 1)
    /\ event.call # Absent
    /\ event.call[1].tool = "reload_config"
    /\ event.call[1].outcome = "returned"
    /\ event.call[1].out =
           <<"Error reloading configuration: ">> \o event.load[1].error

\* C9 as claimed: after two reload_config calls in a row the pool handle is
\* empty, the parameters are those of the configuration, and no pool is open.
C9_ReloadTwiceAsOnce ==
    event.reloads = 2 =>
        /\ db_connection = Gateway(config)
        /\ OpenPools = {}

\* C10: an execute_query that returns, returns every row of the result set in
\* order when the statement has a description and the empty list when it has
\* none; one that ends in a failure returns no rows.
C10_CompleteOrNothing ==
    \A q \in QueryEnds :
        /\ q.exit = "return" =>
             LET r == Server(q.statement, q.conn[1])
             IN  /\ r.ok
                 /\ q.results = IF r.description THEN r.rows ELSE <<>>
        /\ q.exit # "return" => q.results = <<>>

\* a result set of two rows was returned whole
C10_Witness ==
    \E q \in QueryEnds :
        /\ q.exit = "return"
        /\ Len(q.results) = 2
        /\ q.nread = 2

\* a USE statement returned the empty list
C10_WitnessNoDescription ==
    \E q \in QueryEnds :
        /\ q.exit = "return"
        /\ q.statement = UseQuery(DbShop)
        /\ q.results = <<>>

\* piece.split("\n") of one piece of the formatter's text
PieceLines(piece) ==
    CASE piece = "\n"                 -> << <<>>, <<>> >>
      [] piece = "Query Results:\n\n" -> << <<"Query Results:">>, <<>>, <<>> >>
      [] piece = "\n... and "         -> << <<>>, <<"... and ">> >>
      [] piece = "\nTotal rows: "     -> << <<>>, <<"Total rows: ">> >>
      [] OTHER                        -> << <<piece>> >>

\* text.split("\n"): the lines of the two halves, the last line of the first
\* half going on in the first line of the second
RECURSIVE TextLines(_)
TextLines(text) ==
    IF text = <<>> THEN << <<>> >>
    ELSE IF Len(text) = 1 THEN PieceLines(text[1])
    ELSE LET h == Len(text) \div 2
             a == TextLines(SubSeq(text, 1, h))
             b == TextLines(SubSeq(text, h + 1, Len(text)))
         IN  SubSeq(a, 1, Len(a) - 1) \o <<a[Len(a)] \o b[1]>> \o Tail(b)

\* the cells of a row under the columns of the first row, missing ones empty
RowLine(row, first) ==
    Join(<<" | ">>, [j \in 1..Len(first) |->
                        IF HasKey(row, first[j][1])
                        THEN Str(Get(row, first[j][1], NullV)) ELSE <<>>])

NoteLine(k) == <<"... and ", ToString(k), " more rows (truncated for display)">>

IsNoteLine(line) == line # <<>> /\ line[1] = "... and "

\* C11: the text made of n >= 1 rows has, after the title, a blank line, the
\* header and the separator, exactly min(n, 100) data lines, those of the
\* first rows in order; it has the line "... and <n-100> more rows (truncated
\* for display)" if and only if n > 100; and its last line is "Total rows:
\* <n>". The text made of no rows is the fixed one.
C11_FormatterLimit ==
    rendered # <<>> =>
        LET n     == Len(resultset)
            shown == IF n < 100 THEN n ELSE 100
            lines == TextLines(rendered)
            notes == {i \in 1..Len(lines) : IsNoteLine(lines[i])}
        IN  IF n = 0
            THEN rendered =
                   <<"Query executed successfully. No results returned.">>
            ELSE /\ Len(lines) = 4 + shown + (IF n > 100 THEN 3 ELSE 2)
                 /\ \A i \in 1..shown :
                       lines[4 + i] = RowLine(resultset[i], resultset[1])
                 /\ lines[4 + shown + 1] = <<>>
                 /\ n > 100 <=> notes # {}
                 /\ n > 100 => notes = {4 + shown + 2}
                                /\ lines[4 + shown + 2] = NoteLine(n - 100)
                 /\ lines[Len(lines)] = <<"Total rows: ", ToString(n)>>

\* 101 rows were formatted: 100 data lines, the note for one more row, the
\* footer
C11_Witness ==
    /\ rendered # <<>>
    /\ Len(resultset) = 101
    /\ Len(TextLines(rendered)) = 107
    /\ TextLines(rendered)[106] = NoteLine(1)
    /\ TextLines(rendered)[107] = <<"Total rows: ", "101">>

\* the step ended a reload_config call that returned its text
ReloadEnded(e) ==
    /\ e.call # Absent
    /\ e.call[1].tool = "reload_config"
    /\ e.call[1].outcome = "returned"

\* C12: the configuration is replaced and the pool handle is cleared only in
\* the last step of a reload_config call; in that step the pool the call set
\* out to close has been closed, and the handle is cleared only when the
\* configuration has been reloaded: a call whose reload raised leaves the
\* handle as it was.
C12_CloseReloadClear ==
    [][/\ (\/ config' # config
           \/ (db_connection.pool # NoPool /\ db_connection'.pool = NoPool))
          => ReloadEnded(event')
       /\ ReloadEnded(event') =>
            LET c == event'.call[1]
            IN  /\ c.apool # NoPool => pools'[c.apool].closed
                /\ IF c.failed
                   THEN db_connection'.pool = db_connection.pool
                   ELSE /\ config' =
                             LoadConfiguration(environ, dotenv, config).config
                        /\ db_connection'.pool = NoPool]_vars

\* a reload_config call closed a pool, reloaded a changed configuration and
\* cleared the handle
C12_Witness ==
    /\ ReloadEnded(event)
    /\ ~event.call[1].failed
    /\ event.call[1].apool # NoPool
    /\ pools[event.call[1].apool].closed
    /\ config = ConfigOf(EnvShop)
    /\ db_connection.pool = NoPool

\* C13: the step in which a reload_config call reloads the configuration and
\* clears the handle finds no session of the pool it closed checked out, in
\* the state before it and after it; and the step that starts the close of a
\* pool closes none of the sessions that are checked out: their count and the
\* queries that hold them are as they were.
C13_DrainBeforeDiscard ==
    [][/\ ReloadEnded(event') =>
            LET p == event'.call[1].apool
            IN  p # NoPool =>
                  /\ pools[p].used = 0
                  /\ pools'[p].used = 0
                  /\ \A t \in Tasks :
                        task'[t].conn # Absent => task'[t].apool # p
       /\ \A p \in 1..Len(pools) :
            (~pools[p].closing /\ pools'[p].closing) =>
                /\ pools'[p].used = pools[p].used
                /\ \A t \in Tasks :
                      (task[t].conn # Absent /\ task[t].apool = p)
                          => task'[t] = task[t]]_vars

\* a reload_config call waits for the close of a pool while a query holds a
\* session of that pool and is executing its statement
C13_Witness ==
    \E r, q \in Tasks :
        /\ task[r].pc = "wait_closed"
        /\ task[q].pc = "execute"
        /\ task[q].conn # Absent
        /\ task[q].apool = task[r].apool

\* the step started a tool call that is now suspended
Started(t) == task[t].pc = "idle" /\ task'[t].pc # "idle"

\* C14: when the pool construction of an execute_query fails, the tool call
\* ends in that step with the error as its text: no second construction is
\* started, no session was acquired and no statement executed, and the
\* gateway and the pools are as they were. A query that starts while the
\* handle is empty makes a construction attempt of its own.
C14_NoRetry ==
    [][/\ \A i \in 1..Len(event'.query) :
            event'.query[i].exit = "connect failed"
               => /\ event'.call # Absent
                  /\ event'.call[1].outcome = "returned"
                  /\ event'.call[1].out =
                         <<ClaimedPrefix(event'.call[1].tool)>> \o ConnectError
                  /\ i = Len(event'.query)
                  /\ event'.query[i].conn = Absent
                  /\ event'.query[i].results = <<>>
                  /\ db_connection' = db_connection
                  /\ pools' = pools
                  /\ \A t \in Tasks :
                        task'[t].pc = "create_pool" => task[t] = task'[t]
       /\ \A t \in Tasks :
            (Started(t) /\ task'[t].tool # "reload_config"
                        /\ db_connection.pool = NoPool)
                => task'[t].pc = "create_pool"]_vars

\* the second call of a run failed to construct a pool, as the first had, and
\* left the handle empty
C14_Witness ==
    /\ \E q \in QueryEnds : q.exit = "connect failed"
    /\ event.call # Absent
    /\ event.call[1].failed
    /\ db_connection.pool = NoPool
    /\ pools = <<>>
    /\ budget = 0

\* the five parameters of the gateway
ParamsOf(dbc) ==
    [host |-> dbc.host, port |-> dbc.port, user |-> dbc.user,
     password |-> dbc.password, database |-> dbc.database]

\* the configurations of the environments the process can have: a drawn
\* environment, with the keys of a drawn .env file where it has none
CompleteSnapshots ==
    {ConfigOf(load_dotenv(e, f)) :
        e \in Environments, f \in DotenvFiles}

\* C15: in every state the configuration is the snapshot of one environment
\* (it is one at the start, and every step that changes it puts one in its
\* place) and the gateway's five parameters are those of the configuration; a
\* reload_config call fails exactly when int() rejects the port of the
\* environment it reads, as no number or as one of more digits than it
\* converts, and then it returns the text of the error int() raised and
\* leaves the configuration and the gateway's parameters as they were.
C15_AllOrNothing ==
    /\ config \in CompleteSnapshots
    /\ ParamsOf(db_connection) = config
    /\ [][/\ config' # config => config' \in CompleteSnapshots
          /\ ParamsOf(db_connection') = config'
          /\ ReloadEnded(event') =>
               LET c    == event'.call[1]
                   port == getenv(load_dotenv(environ, dotenv), "MARIADB_PORT",
                                  DefaultPort)
               IN  /\ c.failed <=> ~int(port).ok
                   /\ c.failed =>
                        /\ c.out = <<"Error reloading configuration: ">>
                                       \o int(port).error
                        /\ config' = config
                        /\ ParamsOf(db_connection') = ParamsOf(db_connection)]_vars

\* a reload_config call read the port "abc" and failed: the environment has
\* the new host, the configuration and the gateway have the previous one
C15_Witness ==
    /\ ReloadEnded(event)
    /\ event.call[1].failed
    /\ getenv(environ, "MARIADB_PORT", DefaultPort) = <<"a","b","c">>
    /\ getenv(environ, "MARIADB_HOST", <<>>) = <<"db3">>
    /\ config = ConfigOf(EnvUnset)
    /\ ParamsOf(db_connection) = config

\* a reload_config call read a port of 4301 digits and failed on the limit
\* of int(): the environment has the new host, the configuration and the
\* gateway have the previous one
C15_WitnessLongPort ==
    /\ ReloadEnded(event)
    /\ event.call[1].failed
    /\ environ = EnvLongPort
    /\ event.call[1].out = <<"Error reloading configuration: ">>
                               \o ExceedsLimitText(MaxStrDigits + 1)
    /\ config = ConfigOf(EnvUnset)
    /\ ParamsOf(db_connection) = config

\* C16 as claimed: a reload_config call that starts while the pool handle is
\* empty performs no pool operation, returns, and returns the confirmation
\* with the handle empty.
C16_ReloadWithoutPoolConfirms ==
    [][(ReloadEnded(event') /\ event'.call[1].apool = NoPool) =>
            /\ pools' = pools
            /\ db_connection'.pool = NoPool
            /\ event'.call[1].out = <<"Configuration reloaded successfully. New connection will be established on next database operation.">>]_vars

\* C16, amended: a reload_config call that starts while the pool handle is empty ends
\* in the step it starts in, without waiting for any pool: the pools are as
\* they were, the call returns, the handle is empty, and the text is the
\* confirmation when int() accepts the port of the environment and the text
\* of the error int() raised otherwise.
C16_ReloadWithoutPool ==
    [][/\ \A t \in Tasks :
            (Started(t) /\ task'[t].tool = "reload_config")
                => db_connection.pool # NoPool
       /\ (ReloadEnded(event') /\ event'.call[1].apool = NoPool) =>
            LET c    == event'.call[1]
                port == getenv(environ', "MARIADB_PORT", DefaultPort)
            IN  /\ db_connection.pool = NoPool
                /\ pools' = pools
                /\ db_connection'.pool = NoPool
                /\ IF int(port).ok
                   THEN c.out = <<"Configuration reloaded successfully. New connection will be established on next database operation.">>
                   ELSE c.out = <<"Error reloading configuration: ">>
                                    \o int(port).error]_vars

\* reload_config was called before any pool existed and returned the
\* confirmation
C16_Witness ==
    /\ ReloadEnded(event)
    /\ event.call[1].apool = NoPool
    /\ event.call[1].out = ReloadConfirmation
    /\ db_connection.pool = NoPool
    /\ pools = <<>>

\* reload_config was called before any pool existed with a port of 4301
\* digits in the environment and returned the error of int()
C16_WitnessLongPort ==
    /\ ReloadEnded(event)
    /\ event.call[1].apool = NoPool
    /\ environ = EnvLongPort
    /\ event.call[1].out = <<"Error reloading configuration: ">>
                               \o ExceedsLimitText(MaxStrDigits + 1)
    /\ db_connection.pool = NoPool
    /\ pools = <<>>

\* the server answered the statement of the query, with a result or with an
\* error of its own
Answered(q) ==
    /\ q.conn # Absent
    /\ \/ q.exit = "return"
       \/ q.exit = "execute failed" /\ q.cause = Server(q.statement, q.conn[1]).cause

\* C17 as claimed: the statement of an execute_sql call that names a database
\* is answered on a session that has that database selected; the statement of
\* an execute_sql or list_tables call that names none is answered on a
\* session that has the database its pool was constructed with selected.
C17_StatementOnNamedDatabase ==
    \A q \in QueryEnds :
        (/\ event.call # Absent
         /\ q.stage = "main"
         /\ Answered(q)
         /\ \/ event.call[1].tool = "execute_sql"
            \/ event.call[1].tool = "list_tables"
                  /\ event.call[1].arg_database = <<>>)
            => q.conn[1] =
                  IF event.call[1].arg_database # <<>>
                  THEN event.call[1].arg_database
                  ELSE pools[q.pool].args.db

\* the task is in acquire() or holds the session acquire() gave it
Acquiring(tk) == tk.pc \in {"acquire", "execute", "fetchall"}

\* C18: when an execute_query enters acquire(), in the step that starts it,
\* in the step in which create_pool returns to it or in the step in which
\* the query before it returns, the handle refers to a pool and that pool is
\* the one it acquires from; an acquire() that raises raised on a pool; and
\* every query that is acquiring, executing or fetching does so on a pool.
C18_AcquireThroughPool ==
    [][/\ \A t \in Tasks :
            (Acquiring(task'[t]) /\ ~Acquiring(task[t])) =>
                /\ db_connection'.pool # NoPool
                /\ task'[t].apool = db_connection'.pool
       /\ \A t \in Tasks :
            Acquiring(task'[t]) => task'[t].apool \in 1..Len(pools')
       /\ \A i \in 1..Len(event'.query) :
            event'.query[i].exit = "acquire failed"
                => event'.query[i].pool \in 1..Len(pools')]_vars

\* a reload_config ran while a query awaited create_pool: the query checked
\* its session out of the pool the handle refers to, which was constructed
\* with the parameters the gateway had before the reload
C18_Witness ==
    \E q \in Tasks :
        /\ task[q].pc = "execute"
        /\ task[q].conn # Absent
        /\ task[q].apool = db_connection.pool
        /\ pools[task[q].apool].args # ConnArgs(db_connection)
====
